---- MODULE Spec2Model ----
(***************************************************************************)
(* DEVELIX WhatsApp bot: the Conversation Engine (bot-handler.ts) and the  *)
(* in-memory Repository (storage.ts).                                      *)
(*                                                                         *)
(* A text is a sequence of atoms.  The text of an inbound message is a     *)
(* sequence of one-character strings, so that trim(), toLowerCase() and    *)
(* includes() are computed on it character by character.  A fixed block of *)
(* bot copy (a menu, a prompt) is one atom holding an ASCII abbreviation   *)
(* of the block; the currency sign U+20A6 of the source is written N.      *)
(*                                                                         *)
(* Spec runs one sender through long conversations over a small alphabet   *)
(* (the transport accepts every reply); SpecMenu runs short conversations  *)
(* over a wide alphabet, with replies the transport may reject.  In both   *)
(* every message is handled to its end before the next arrives.  last and  *)
(* run are history variables: they record what the calls were given and    *)
(* returned and are read by no action.                                     *)
(*                                                                         *)
(* The Connection Manager (whatsapp-bot.ts, the later of the two versions  *)
(* of the file) is the second half: SpecConn runs the connection life      *)
(* cycle (start, the transport's connection updates, the reconnect timers, *)
(* stop) and the two operations of the admin surface; SpecConnFair runs    *)
(* the life cycle without stop and the admin surface, under the fairness   *)
(* of the timer and of the promises; SpecStart runs the life cycle with    *)
(* further calls of start(); SpecAsync delivers inbound batches to         *)
(* handlers that suspend at each await; SpecAdmin runs batches of several  *)
(* events, manual sends (routes.ts) and PATCH requests on the leads after  *)
(* a conversation; SpecForm sends every text of the wide alphabet to every *)
(* step of the lead form; SpecPair handles the texts of two identities in  *)
(* any order; SpecStep starts from the sessions the type BotState admits.  *)
(* conn and hist are history variables.                                    *)
(***************************************************************************)
EXTENDS Integers, Sequences, FiniteSets, TLC

VARIABLES userStates, leads, botMessages, sent, last, run, probe,
          sock, isConnected, qrCodeGenerated, timers, starting, stopping,
          sockets, conn, hist, tasks, objects, stored

engineVars == <<userStates, leads, botMessages, sent, last, run, probe>>

(* the fields of WhatsAppBot, its pending timers and its start() and       *)
(* stop() calls in flight; the sockets made so far                         *)
connVars == <<sock, isConnected, qrCodeGenerated, timers, starting, stopping,
              sockets, conn, hist>>

(* connVars without the counters of the run                                *)
managerVars == <<sock, isConnected, qrCodeGenerated, timers, starting, stopping,
                 sockets, conn>>

(* the handleMessages calls in flight and the session objects they hold    *)
asyncVars == <<tasks, objects, stored>>

vars == <<userStates, leads, botMessages, sent, last, run, probe,
          sock, isConnected, qrCodeGenerated, timers, starting, stopping,
          sockets, conn, hist, tasks, objects, stored>>

---------------------------------------------------------------------------
(* String.prototype.trim / toLowerCase / includes, on character sequences  *)

WhiteSpace == {" ", "\t", "\n"}

UpperCase == <<"A","B","C","D","E","F","G","H","I","J","K","L","M","N","O","P","Q","R","S","T","U","V","W","X","Y","Z">>

LowerCase == <<"a","b","c","d","e","f","g","h","i","j","k","l","m","n","o","p","q","r","s","t","u","v","w","x","y","z">>

toLowerChar(c) ==
  IF \E i \in DOMAIN UpperCase : UpperCase[i] = c
    THEN LowerCase[CHOOSE i \in DOMAIN UpperCase : UpperCase[i] = c]
    ELSE c

toLowerCase(s) == [i \in 1..Len(s) |-> toLowerChar(s[i])]

trim(s) ==
  LET keep == {i \in 1..Len(s) : s[i] \notin WhiteSpace}
      first == CHOOSE i \in keep : \A j \in keep : i <= j
      final == CHOOSE i \in keep : \A j \in keep : j <= i
  IN IF keep = {} THEN <<>> ELSE SubSeq(s, first, final)

includes(s, sub) ==
  \E i \in 0..(Len(s) - Len(sub)) : SubSeq(s, i + 1, i + Len(sub)) = sub

---------------------------------------------------------------------------
(* JavaScript values held in the untyped draft (leadData: any)             *)

Undefined == [t |-> "undefined", v |-> <<>>]

StringValue(s) == [t |-> "string", v |-> s]

(* Members every object literal inherits from Object.prototype: a lookup   *)
(* of one of these keys on budgetOptions / timelineOptions yields the      *)
(* inherited member, not undefined.                                        *)
ObjectPrototypeKeys ==
  { <<"c","o","n","s","t","r","u","c","t","o","r">>,
    <<"t","o","S","t","r","i","n","g">>,
    <<"t","o","L","o","c","a","l","e","S","t","r","i","n","g">>,
    <<"v","a","l","u","e","O","f">>,
    <<"h","a","s","O","w","n","P","r","o","p","e","r","t","y">>,
    <<"i","s","P","r","o","t","o","t","y","p","e","O","f">>,
    <<"p","r","o","p","e","r","t","y","I","s","E","n","u","m","e","r","a","b","l","e">>,
    <<"_","_","p","r","o","t","o","_","_">> }

InheritedMember(key) == [t |-> "object", v |-> key]

(* obj[key] for an object literal with the own properties of table         *)
PropertyGet(table, key) ==
  IF key \in DOMAIN table THEN StringValue(table[key])
  ELSE IF key \in ObjectPrototypeKeys THEN InheritedMember(key)
  ELSE Undefined

Truthy(val) == val.t = "object" \/ (val.t = "string" /\ val.v # <<>>)

(* a || b *)
OrElse(a, b) == IF Truthy(a) THEN a ELSE b

(* ${val} in a template literal *)
TemplateString(val) ==
  CASE val.t = "string" -> val.v
    [] val.t = "undefined" -> <<"u","n","d","e","f","i","n","e","d">>
    [] OTHER -> <<"[native ">> \o val.v \o <<"]">>

---------------------------------------------------------------------------
(* Canned responses                                                        *)

getMainMenu == <<"Welcome to Develix! ... Type menu anytime to return here">>

CustomDevelopmentText == <<"Custom Development Services ... Reply with 'quote' to start!">>

getProductsInfo == <<"Our Ready-to-Use Products ... Type the product name for more details or 'menu' for main menu.">>

getAIInfo == <<"AI Models & Machine Learning ... Type '8' for consultation!">>

getWebDevInfo == <<"Modern Website Development ... Type '8' for a free quote!">>

getBlockchainInfo == <<"Elixa Coin & Blockchain Solutions ... Type 'elixa' for details!">>

getVendraInfo == <<"Vendra - AI-Powered SME Platform ... Type 'vendra' for access!">>

getPortfolioInfo == <<"Our Success Stories ... Type 'portfolio' for full showcase!">>

QuoteText == <<"Get Your Free Consultation ... Please type the number or describe your project:">>

getContactInfo == <<"Get in Touch ... Type '8' for consultation booking!">>

BudgetPrompt == <<"What's your budget range? ... Please type the number or your budget range:">>

TimelinePrompt == <<"What's your timeline? ... Please type the number or your timeline:">>

DescriptionPrompt == <<"Please provide a brief description of your project and any specific requirements:">>

NamePrompt == <<"What's your name? (This helps us personalize our service)">>

---------------------------------------------------------------------------
(* Session state (interface BotState)                                      *)

EmptyLeadData ==
  [projectType |-> Undefined, budget |-> Undefined, timeline |-> Undefined,
   description |-> Undefined, name |-> Undefined]

DefaultState == [currentMenu |-> "main", leadFormStep |-> 0, leadData |-> EmptyLeadData]

(* getCustomDevelopmentInfo that opens the form, as getQuoteInfo does *)
getCustomDevelopmentInfo_OpensForm(userState) ==
  [reply |-> CustomDevelopmentText,
   userState |-> [userState EXCEPT !.currentMenu = "lead_form", !.leadFormStep = 1]]

getCustomDevelopmentInfo(userState) ==
  [reply |-> CustomDevelopmentText, userState |-> userState]

(* a getQuoteInfo that sets the menu and leaves the step *)
getQuoteInfo_MenuOnly(userState) ==
  [reply |-> QuoteText, userState |-> [userState EXCEPT !.currentMenu = "lead_form"]]

getQuoteInfo(userState) ==
  [reply |-> QuoteText,
   userState |-> [userState EXCEPT !.currentMenu = "lead_form", !.leadFormStep = 1]]

---------------------------------------------------------------------------
(* handleMainMenu: the switch on the trimmed, lower-cased input, then the  *)
(* ordered includes() tests of its default branch                          *)

MenuCases ==
  << [route |-> "getCustomDevelopmentInfo",
      labels |-> {<<"1">>,
                  <<"c","u","s","t","o","m">>,
                  <<"c","u","s","t","o","m"," ","d","e","v","e","l","o","p","m","e","n","t">>,
                  <<"d","e","v","e","l","o","p","m","e","n","t">>,
                  <<"d","e","v">>}],
     [route |-> "getProductsInfo",
      labels |-> {<<"2">>,
                  <<"p","r","o","d","u","c","t","s">>,
                  <<"p","r","o","d","u","c","t">>,
                  <<"a","p","p","s">>,
                  <<"a","p","p">>}],
     [route |-> "getAIInfo",
      labels |-> {<<"3">>,
                  <<"a","i">>,
                  <<"a","r","t","i","f","i","c","i","a","l"," ","i","n","t","e","l","l","i","g","e","n","c","e">>,
                  <<"m","l">>,
                  <<"m","a","c","h","i","n","e"," ","l","e","a","r","n","i","n","g">>}],
     [route |-> "getWebDevInfo",
      labels |-> {<<"4">>,
                  <<"w","e","b">>,
                  <<"w","e","b","s","i","t","e">>,
                  <<"w","e","b"," ","d","e","v","e","l","o","p","m","e","n","t">>,
                  <<"w","e","b"," ","d","e","v">>}],
     [route |-> "getBlockchainInfo",
      labels |-> {<<"5">>,
                  <<"b","l","o","c","k","c","h","a","i","n">>,
                  <<"e","l","i","x","a">>,
                  <<"c","r","y","p","t","o">>,
                  <<"d","e","f","i">>}],
     [route |-> "getVendraInfo",
      labels |-> {<<"6">>,
                  <<"v","e","n","d","r","a">>,
                  <<"m","a","r","k","e","t","p","l","a","c","e">>}],
     [route |-> "getPortfolioInfo",
      labels |-> {<<"7">>,
                  <<"p","o","r","t","f","o","l","i","o">>,
                  <<"s","h","o","w","c","a","s","e">>,
                  <<"p","r","o","j","e","c","t","s">>,
                  <<"c","a","s","e"," ","s","t","u","d","i","e","s">>}],
     [route |-> "getQuoteInfo",
      labels |-> {<<"8">>,
                  <<"q","u","o","t","e">>,
                  <<"q","u","o","t","e","s">>,
                  <<"q","o","u","t","e">>,
                  <<"q","o","t","w">>,
                  <<"c","o","n","s","u","l","t","a","t","i","o","n">>,
                  <<"c","o","n","s","u","l","t">>,
                  <<"e","s","t","i","m","a","t","e">>}],
     [route |-> "getContactInfo",
      labels |-> {<<"9">>,
                  <<"c","o","n","t","a","c","t">>,
                  <<"s","u","p","p","o","r","t">>,
                  <<"h","e","l","p">>,
                  <<"r","e","a","c","h">>}],
     [route |-> "getMainMenu",
      labels |-> {<<"m","e","n","u">>,
                  <<"s","t","a","r","t">>,
                  <<"m","a","i","n">>,
                  <<"h","o","m","e">>}] >>

MarkerGroups ==
  << [route |-> "getQuoteInfo",
      markers |-> {<<"p","r","o","j","e","c","t">>, <<"q","u","o","t","e">>, <<"q","o","u","t","e">>, <<"d","e","v","e","l","o","p","m","e","n","t">>, <<"e","s","t","i","m","a","t","e">>, <<"c","o","n","s","u","l","t">>}],
     [route |-> "getAIInfo",
      markers |-> {<<"a","i">>, <<"a","r","t","i","f","i","c","i","a","l">>, <<"m","a","c","h","i","n","e">>}],
     [route |-> "getWebDevInfo",
      markers |-> {<<"w","e","b">>, <<"w","e","b","s","i","t","e">>}],
     [route |-> "getBlockchainInfo",
      markers |-> {<<"b","l","o","c","k","c","h","a","i","n">>, <<"c","r","y","p","t","o">>, <<"e","l","i","x","a">>}],
     [route |-> "getVendraInfo",
      markers |-> {<<"v","e","n","d","r","a">>, <<"m","a","r","k","e","t","p","l","a","c","e">>}],
     [route |-> "getPortfolioInfo",
      markers |-> {<<"p","o","r","t","f","o","l","i","o">>, <<"s","h","o","w","c","a","s","e">>, <<"c","a","s","e">>}],
     [route |-> "getContactInfo",
      markers |-> {<<"c","o","n","t","a","c","t">>, <<"s","u","p","p","o","r","t">>, <<"r","e","a","c","h">>}],
     [route |-> "getProductsInfo",
      markers |-> {<<"p","r","o","d","u","c","t">>, <<"a","p","p">>}] >>

NoRoute == "none"

CaseRoute(input) ==
  IF \E i \in DOMAIN MenuCases : input \in MenuCases[i].labels
    THEN MenuCases[CHOOSE i \in DOMAIN MenuCases : input \in MenuCases[i].labels].route
    ELSE NoRoute

GroupMatches(input, g) == \E mk \in g.markers : includes(input, mk)

(* a default branch whose last matching test decides *)
MarkerRoute_LastGroup(input) ==
  LET hits == {i \in DOMAIN MarkerGroups : GroupMatches(input, MarkerGroups[i])}
  IN IF hits = {} THEN NoRoute
     ELSE MarkerGroups[CHOOSE i \in hits : \A j \in hits : i >= j].route

MarkerRoute(input) ==
  LET hits == {i \in DOMAIN MarkerGroups : GroupMatches(input, MarkerGroups[i])}
  IN IF hits = {} THEN NoRoute
     ELSE MarkerGroups[CHOOSE i \in hits : \A j \in hits : i <= j].route

(* MenuRoute that tests the markers before the exact labels *)
MenuRoute_MarkersFirst(input) ==
  IF MarkerRoute(input) # NoRoute THEN MarkerRoute(input)
  ELSE IF CaseRoute(input) # NoRoute THEN CaseRoute(input)
  ELSE "getMainMenu"

(* MenuRoute whose last resort is the contact text *)
MenuRoute_DefaultContact(input) ==
  IF CaseRoute(input) # NoRoute THEN CaseRoute(input)
  ELSE IF MarkerRoute(input) # NoRoute THEN MarkerRoute(input)
  ELSE "getContactInfo"

MenuRoute(input) ==
  IF CaseRoute(input) # NoRoute THEN CaseRoute(input)
  ELSE IF MarkerRoute(input) # NoRoute THEN MarkerRoute(input)
  ELSE "getMainMenu"

Respond(route, userState) ==
  CASE route = "getCustomDevelopmentInfo" -> getCustomDevelopmentInfo(userState)
    [] route = "getProductsInfo" -> [reply |-> getProductsInfo, userState |-> userState]
    [] route = "getAIInfo" -> [reply |-> getAIInfo, userState |-> userState]
    [] route = "getWebDevInfo" -> [reply |-> getWebDevInfo, userState |-> userState]
    [] route = "getBlockchainInfo" -> [reply |-> getBlockchainInfo, userState |-> userState]
    [] route = "getVendraInfo" -> [reply |-> getVendraInfo, userState |-> userState]
    [] route = "getPortfolioInfo" -> [reply |-> getPortfolioInfo, userState |-> userState]
    [] route = "getQuoteInfo" -> getQuoteInfo(userState)
    [] route = "getContactInfo" -> [reply |-> getContactInfo, userState |-> userState]
    [] OTHER -> [reply |-> getMainMenu, userState |-> userState]

handleMainMenu(phoneNumber, messageText, userState) ==
  LET input == toLowerCase(trim(messageText))
      r == Respond(MenuRoute(input), userState)
  IN [reply |-> r.reply, userState |-> r.userState, createLead |-> <<>>]

---------------------------------------------------------------------------
(* handleLeadForm                                                          *)

ExitKeywords ==
  { <<"m","e","n","u">>, <<"c","a","n","c","e","l">>, <<"e","x","i","t">>, <<"b","a","c","k">> }

budgetOptions ==
  (<<"1">> :> <<"N100K - N500K">>) @@ (<<"2">> :> <<"N500K - N1M">>) @@
  (<<"3">> :> <<"N1M - N3M">>) @@ (<<"4">> :> <<"N3M - N5M">>) @@ (<<"5">> :> <<"N5M+">>)

timelineOptions ==
  (<<"1">> :> <<"ASAP (Rush)">>) @@ (<<"2">> :> <<"1-3 months">>) @@
  (<<"3">> :> <<"3-6 months">>) @@ (<<"4">> :> <<"6+ months">>)

(* the template literal returned at step 5, read from userState.leadData   *)
SummaryText(leadData) ==
  <<"Thank you ">> \o TemplateString(leadData.name)
    \o <<"! Your project inquiry has been submitted. Summary: Project: ">>
    \o TemplateString(leadData.projectType)
    \o <<" Budget: ">> \o TemplateString(leadData.budget)
    \o <<" Timeline: ">> \o TemplateString(leadData.timeline)
    \o <<" ... Type 'menu' to return to the main menu.">>

(* InsertLead that leaves out the name *)
InsertLead_NoName(phoneNumber, leadData) ==
  [phoneNumber |-> phoneNumber,
   name |-> Undefined,
   projectType |-> leadData.projectType,
   budget |-> leadData.budget,
   timeline |-> leadData.timeline,
   description |-> leadData.description,
   status |-> "new"]

InsertLead(phoneNumber, leadData) ==
  [phoneNumber |-> phoneNumber,
   name |-> leadData.name,
   projectType |-> leadData.projectType,
   budget |-> leadData.budget,
   timeline |-> leadData.timeline,
   description |-> leadData.description,
   status |-> "new"]

Result(reply, userState, createLead) ==
  [reply |-> reply, userState |-> userState, createLead |-> createLead]

(* case 1: project type *)
LeadFormCase1(phoneNumber, input, userState) ==
  Result(BudgetPrompt,
         [userState EXCEPT !.leadData.projectType = StringValue(input), !.leadFormStep = 2],
         <<>>)

(* a case 2 that asks again when the input is none of the listed codes *)
LeadFormCase2_Validates(phoneNumber, input, userState) ==
  IF input \in DOMAIN budgetOptions
    THEN Result(TimelinePrompt,
                [userState EXCEPT !.leadData.budget = StringValue(budgetOptions[input]),
                                  !.leadFormStep = 3],
                <<>>)
    ELSE Result(BudgetPrompt, userState, <<>>)

(* case 2: budget *)
LeadFormCase2(phoneNumber, input, userState) ==
  Result(TimelinePrompt,
         [userState EXCEPT
            !.leadData.budget = OrElse(PropertyGet(budgetOptions, input), StringValue(input)),
            !.leadFormStep = 3],
         <<>>)

(* a case 3 that writes its answer over the budget *)
LeadFormCase3_WritesBudget(phoneNumber, input, userState) ==
  Result(DescriptionPrompt,
         [userState EXCEPT
            !.leadData.budget = OrElse(PropertyGet(timelineOptions, input), StringValue(input)),
            !.leadFormStep = 4],
         <<>>)

(* case 3: timeline *)
LeadFormCase3(phoneNumber, input, userState) ==
  Result(DescriptionPrompt,
         [userState EXCEPT
            !.leadData.timeline = OrElse(PropertyGet(timelineOptions, input), StringValue(input)),
            !.leadFormStep = 4],
         <<>>)

(* case 4: description *)
LeadFormCase4(phoneNumber, input, userState) ==
  Result(NamePrompt,
         [userState EXCEPT !.leadData.description = StringValue(input), !.leadFormStep = 5],
         <<>>)

(* LeadFormCase5 without the reset of the session *)
LeadFormCase5_NoReset(phoneNumber, input, userState) ==
  LET filled == [userState EXCEPT !.leadData.name = StringValue(input)]
  IN Result(SummaryText(filled.leadData), filled,
            <<InsertLead(phoneNumber, filled.leadData)>>)

(* case 5: the name is stored, the lead is saved, the state is reset, and  *)
(* only then is the summary template evaluated on userState.leadData       *)
LeadFormCase5(phoneNumber, input, userState) ==
  LET filled == [userState EXCEPT !.leadData.name = StringValue(input)]
      reset == [filled EXCEPT !.currentMenu = "main", !.leadFormStep = 0,
                              !.leadData = EmptyLeadData]
  IN Result(SummaryText(reset.leadData), reset,
            <<InsertLead(phoneNumber, filled.leadData)>>)

(* default: leadData is left as it is *)
LeadFormDefault(phoneNumber, input, userState) ==
  Result(getMainMenu, [userState EXCEPT !.currentMenu = "main", !.leadFormStep = 0], <<>>)

LeadFormStep(phoneNumber, input, userState) ==
  CASE userState.leadFormStep = 1 -> LeadFormCase1(phoneNumber, input, userState)
    [] userState.leadFormStep = 2 -> LeadFormCase2(phoneNumber, input, userState)
    [] userState.leadFormStep = 3 -> LeadFormCase3(phoneNumber, input, userState)
    [] userState.leadFormStep = 4 -> LeadFormCase4(phoneNumber, input, userState)
    [] userState.leadFormStep = 5 -> LeadFormCase5(phoneNumber, input, userState)
    [] OTHER -> LeadFormDefault(phoneNumber, input, userState)

(* LeadFormExit that keeps the draft, as the default branch does *)
LeadFormExit_KeepDraft(userState) ==
  Result(getMainMenu, [userState EXCEPT !.currentMenu = "main", !.leadFormStep = 0], <<>>)

LeadFormExit(userState) ==
  Result(getMainMenu,
         [userState EXCEPT !.currentMenu = "main", !.leadFormStep = 0,
                           !.leadData = EmptyLeadData],
         <<>>)

handleLeadForm(phoneNumber, messageText, userState) ==
  LET input == trim(messageText)
      lowerInput == toLowerCase(input)
  IN IF lowerInput \in ExitKeywords
       THEN LeadFormExit(userState)
       ELSE LeadFormStep(phoneNumber, input, userState)

---------------------------------------------------------------------------
(* MemStorage: the leads and botMessages maps, in insertion order.  The    *)
(* random id of a record is its position; timestamps are not modelled.     *)

createLead(store, insertLead) ==
  Append(store, [phoneNumber |-> insertLead.phoneNumber,
                 name |-> insertLead.name,
                 projectType |-> insertLead.projectType,
                 budget |-> insertLead.budget,
                 timeline |-> insertLead.timeline,
                 description |-> insertLead.description,
                 status |-> insertLead.status,
                 id |-> Len(store) + 1])

(* { ...lead, ...updates }: every key of updates replaces or adds a field  *)
Spread(lead, updates) ==
  [k \in DOMAIN lead \cup DOMAIN updates |->
     IF k \in DOMAIN updates THEN updates[k] ELSE lead[k]]

(* MemStorage.updateLead: the record under the key id is replaced by the   *)
(* spread of the stored lead and the updates                               *)
updateLead(store, id, updates) ==
  IF id \in DOMAIN store
    THEN [store EXCEPT ![id] = Spread(store[id], updates)]
    ELSE store

(* a log that holds one entry for each phone number, as whatsappSessions   *)
createBotMessage_KeyedByPhone(store, phoneNumber, messageType, content, isBot) ==
  LET kept == SelectSeq(store, LAMBDA e : e.phoneNumber # phoneNumber)
  IN Append(kept, [phoneNumber |-> phoneNumber, messageType |-> messageType,
                   content |-> content, isBot |-> isBot, id |-> Len(kept) + 1])

createBotMessage(store, phoneNumber, messageType, content, isBot) ==
  Append(store, [phoneNumber |-> phoneNumber, messageType |-> messageType,
                 content |-> content, isBot |-> isBot, id |-> Len(store) + 1])

---------------------------------------------------------------------------
(* handleMessage                                                           *)

(* message.message?.conversation || message.message?.extendedTextMessage?.text || ''  *)
(* an absent field and an empty string are both falsy: both are <<>>       *)
ExtractText(message) ==
  IF message.conversation # <<>> THEN message.conversation
  ELSE IF message.extendedText # <<>> THEN message.extendedText
  ELSE <<>>

(* userStates.get(phoneNumber) || { currentMenu: 'main', leadFormStep: 0, leadData: {} } *)
GetState(states, phoneNumber) ==
  IF phoneNumber \in DOMAIN states THEN states[phoneNumber] ELSE DefaultState

(* one session for every identity the Map knows *)
SetState_Shared(states, phoneNumber, userState) ==
  [p \in DOMAIN states \cup {phoneNumber} |-> userState]

(* userStates.set(phoneNumber, userState) *)
SetState(states, phoneNumber, userState) ==
  [p \in DOMAIN states \cup {phoneNumber} |->
     IF p = phoneNumber THEN userState ELSE states[p]]

(* Dispatch that tests the navigation keywords before the session state *)
Dispatch_NavFirst(phoneNumber, messageText, userState) ==
  IF userState.currentMenu = "lead_form"
     /\ toLowerCase(trim(messageText)) \notin MenuCases[10].labels
    THEN handleLeadForm(phoneNumber, messageText, userState)
    ELSE handleMainMenu(phoneNumber, messageText, userState)

Dispatch(phoneNumber, messageText, userState) ==
  IF userState.currentMenu = "lead_form"
    THEN handleLeadForm(phoneNumber, messageText, userState)
    ELSE handleMainMenu(phoneNumber, messageText, userState)

(* a handleMessage that does not return early *)
NoText_Never(messageText) == FALSE

(* if (!messageText) return; *)
NoText(messageText) == messageText = <<>>

(* The most recent handleMessage call: its sender and extracted text, the  *)
(* session it found, the reply it produced, the createLead call it made    *)
(* and whether the reply was sent.                                         *)
NoCall ==
  [op |-> "none", phoneNumber |-> <<>>, messageText |-> <<>>, before |-> DefaultState,
   reply |-> <<>>, created |-> <<>>, delivered |-> FALSE]

(* History of the current form run of one identity: the texts fed to the   *)
(* lead form since the session entered it, and the createLead calls made   *)
(* for them.  An exit keyword abandons the run.                            *)
NoRun == [inputs |-> <<>>, created |-> 0]

IsExitKeyword(messageText) == toLowerCase(trim(messageText)) \in ExitKeywords

RunAfter(r, before, after, messageText, nCreated) ==
  IF before.currentMenu = "lead_form"
    THEN IF IsExitKeyword(messageText) THEN NoRun
         ELSE [inputs |-> Append(r.inputs, messageText), created |-> r.created + nCreated]
    ELSE IF after.currentMenu = "lead_form" THEN NoRun ELSE r

(* One handleMessage call.  sendOk is the outcome of sock.sendMessage: a   *)
(* rejected send throws out of handleMessage after the session was stored  *)
(* and before the 'sent' entry is written.                                 *)
handleMessage(message, sendOk) ==
  LET phoneNumber == message.key.remoteJid
      messageText == ExtractText(message)
      userState == GetState(userStates, phoneNumber)
      r == Dispatch(phoneNumber, messageText, userState)
      received == createBotMessage(botMessages, phoneNumber, "received", messageText, 0)
      delivered == r.reply # <<>> /\ sendOk
  IN IF NoText(messageText)
       THEN /\ UNCHANGED <<userStates, leads, botMessages, sent, run, probe>>
            /\ last' = [NoCall EXCEPT !.op = "called", !.phoneNumber = phoneNumber]
            /\ UNCHANGED <<managerVars, asyncVars>>
       ELSE /\ userStates' = SetState(userStates, phoneNumber, r.userState)
            /\ leads' = IF r.createLead = <<>> THEN leads
                        ELSE createLead(leads, r.createLead[1])
            /\ botMessages' =
                 IF delivered
                   THEN createBotMessage(received, phoneNumber, "sent", r.reply, 1)
                   ELSE received
            /\ sent' = IF delivered
                         THEN Append(sent, [jid |-> phoneNumber, text |-> r.reply])
                         ELSE sent
            /\ last' = [op |-> "called", phoneNumber |-> phoneNumber,
                        messageText |-> messageText, before |-> userState,
                        reply |-> r.reply, created |-> r.createLead,
                        delivered |-> delivered]
            /\ run' = [run EXCEPT ![phoneNumber] =
                         RunAfter(@, userState, r.userState, messageText, Len(r.createLead))]
            /\ UNCHANGED <<probe, managerVars, asyncVars>>

(* a handler that takes the newest event of the batch *)
FirstMessage_Last(m) == m[Len(m)]

(* const message = m.messages[0] *)
FirstMessage(m) == m[1]

(* WhatsAppBot.handleMessages: only m.messages[0], unless absent or fromMe; *)
(* whatever handleMessage throws is caught and logged here.  The events    *)
(* behind the first are counted in hist.                                   *)
handleMessages(m, sendOk) ==
  IF m = <<>> \/ FirstMessage(m).key.fromMe
    THEN UNCHANGED vars
    ELSE /\ handleMessage(FirstMessage(m), sendOk)
         /\ hist' = [hist EXCEPT !.passedOver = @ + Len(m) - 1]

---------------------------------------------------------------------------
(* WhatsAppBot: the Connection Manager                                     *)

(* The disconnect causes handleConnectionUpdate names, one it does not     *)
(* name, and the value statusCode has when the update carries no           *)
(* lastDisconnect error.                                                   *)
DisconnectReason ==
  {"loggedOut", "restartRequired", "timedOut", "connectionLost", "connectionClosed"}

NoStatusCode == "undefined"

(* the delays of the three setTimeout calls, in milliseconds *)
RestartDelay == 2000

LostDelay == 5000

DefaultDelay == 3000

ReconnectDelays == {RestartDelay, DefaultDelay, LostDelay}

(* one 'connection.update' event: { connection, lastDisconnect, qr }       *)
Update(connection, statusCode, qr) ==
  [connection |-> connection, statusCode |-> statusCode, qr |-> qr]

(* a close handler that reconnects after a logout as after any other cause *)
ReconnectDelay_AfterLogout(statusCode) ==
  IF statusCode = "restartRequired" THEN <<RestartDelay>>
  ELSE IF statusCode = "timedOut" \/ statusCode = "connectionLost" THEN <<LostDelay>>
  ELSE <<DefaultDelay>>

(* a close handler with one delay for every cause *)
ReconnectDelay_Flat(statusCode) ==
  IF statusCode = "loggedOut" THEN <<>> ELSE <<DefaultDelay>>

(* the setTimeout(() => this.start(), delay) calls of one close event      *)
ReconnectDelay(statusCode) ==
  IF statusCode = "loggedOut" THEN <<>>
  ELSE IF statusCode = "restartRequired" THEN <<RestartDelay>>
  ELSE IF statusCode = "timedOut" \/ statusCode = "connectionLost" THEN <<LostDelay>>
  ELSE <<DefaultDelay>>

(* a qr test without the debounce flag *)
RendersPrompt_NoDebounce(update, generated) == update.qr

(* if (qr && !this.qrCodeGenerated) *)
RendersPrompt(update, generated) == update.qr /\ ~generated

(* a close branch that forgets the flag on logout *)
ClosedFlag_Kept(statusCode, generated) == generated

(* this.qrCodeGenerated after the close branch *)
ClosedFlag(statusCode, generated) ==
  IF statusCode = "loggedOut" THEN FALSE ELSE generated

(* the close branch of the earlier version of the file (lines 74-85): the  *)
(* flag is cleared by a logout only                                        *)
ClosedConnected_LogoutOnly(statusCode, connected) ==
  IF statusCode = "loggedOut" THEN FALSE ELSE connected

(* this.isConnected = false, the first statement of the close branch       *)
ClosedConnected(statusCode, connected) == FALSE

(* handleConnectionUpdate on the fields (connected, generated): the fields *)
(* it leaves, whether it rendered the pairing prompt, and the timers it    *)
(* set                                                                     *)
ConnectionUpdate(update, connected, generated) ==
  LET rendered == RendersPrompt(update, generated)
      afterQr == generated \/ rendered
  IN IF update.connection = "close"
       THEN [isConnected |-> ClosedConnected(update.statusCode, connected),
             qrCodeGenerated |-> ClosedFlag(update.statusCode, afterQr),
             rendered |-> rendered,
             timeouts |-> ReconnectDelay(update.statusCode)]
     ELSE IF update.connection = "open"
       THEN [isConnected |-> TRUE, qrCodeGenerated |-> FALSE,
             rendered |-> rendered, timeouts |-> <<>>]
     ELSE [isConnected |-> connected, qrCodeGenerated |-> afterQr,
           rendered |-> rendered, timeouts |-> <<>>]

NoTimers == [d \in ReconnectDelays |-> 0]

(* setTimeout: one more pending timer for each delay of timeouts           *)
SetTimeouts(pending, timeouts) ==
  [d \in ReconnectDelays |->
     pending[d] + Cardinality({i \in DOMAIN timeouts : timeouts[i] = d})]

Pending(delays) ==
  delays[RestartDelay] + delays[DefaultDelay] + delays[LostDelay]

(* who called start(): registerRoutes at boot, a reconnect timer, or any   *)
(* later call of the exported whatsappBot.start()                          *)
Callers == {"boot", "timer", "call"}

NoStarts == [c \in Callers |-> 0]

(* errors and results of the public operations                             *)
NotInitialized == <<"WhatsApp bot not initialized">>

NotConnectedYet ==
  <<"WhatsApp bot not connected. Please wait for connection or scan QR code.">>

InvalidFormat == <<"Invalid phone number format">>

NotConnected == <<"WhatsApp bot not connected">>

(* `Failed to generate pairing code: ${error instanceof Error ? error.message : 'Unknown error'}` *)
FailedToGenerate(error) ==
  <<"Failed to generate pairing code: ">>
     \o (IF error.isError THEN error.message ELSE <<"Unknown error">>)

Thrown(message) == [isError |-> TRUE, message |-> message]

(* the outcome of one call of a public operation: calls are the calls it   *)
(* made on the transport                                                   *)
Returned(value, calls) ==
  [outcome |-> "returned", value |-> value, error |-> Thrown(<<>>), calls |-> calls]

Rejected(error, calls) ==
  [outcome |-> "rejected", value |-> <<>>, error |-> error, calls |-> calls]

Digits == {"0", "1", "2", "3", "4", "5", "6", "7", "8", "9"}

IsDigit(c) == c \in Digits

(* phoneNumber.replace(/\D/g, '') *)
StripNonDigits(phoneNumber) == SelectSeq(phoneNumber, IsDigit)

MinDigits == 10

MaxDigits == 15

(* a validation that takes any number, as the earlier version of the file  *)
InvalidNumber_Never(cleanPhoneNumber) == FALSE

(* cleanPhoneNumber.length < 10 || cleanPhoneNumber.length > 15 *)
InvalidNumber(cleanPhoneNumber) ==
  Len(cleanPhoneNumber) < MinDigits \/ Len(cleanPhoneNumber) > MaxDigits

(* generatePairingCode on the fields (handle, connected); answer is what   *)
(* this.sock.requestPairingCode does when it is called: it returns a code  *)
(* or throws                                                               *)
PairingCode(handle, connected, phoneNumber, answer) ==
  IF handle = 0 THEN Rejected(Thrown(NotInitialized), <<>>)
  ELSE IF ~connected THEN Rejected(Thrown(NotConnectedYet), <<>>)
  ELSE LET cleanPhoneNumber == StripNonDigits(phoneNumber)
       IN IF InvalidNumber(cleanPhoneNumber)
            THEN Rejected(Thrown(FailedToGenerate(Thrown(InvalidFormat))), <<>>)
          ELSE IF answer.outcome = "returned"
            THEN Returned(answer.value, <<cleanPhoneNumber>>)
          ELSE Rejected(Thrown(FailedToGenerate(answer.error)), <<cleanPhoneNumber>>)

(* an addressing that appends the suffix to every identity *)
Jid_AlwaysSuffix(phoneNumber) == phoneNumber \o <<"@", "s.whatsapp.net">>

(* phoneNumber.includes('@') ? phoneNumber : `${phoneNumber}@s.whatsapp.net` *)
Jid(phoneNumber) ==
  IF includes(phoneNumber, <<"@">>) THEN phoneNumber
  ELSE phoneNumber \o <<"@", "s.whatsapp.net">>

(* a guard that looks at the handle only *)
SendRefused_HandleOnly(handle, connected) == handle = 0

(* if (!this.isConnected || !this.sock) *)
SendRefused(handle, connected) == ~connected \/ handle = 0

(* WhatsAppBot.sendMessage on the fields (handle, connected); answer is    *)
(* what this.sock.sendMessage does when it is called                       *)
SendMessage(handle, connected, phoneNumber, message, answer) ==
  IF SendRefused(handle, connected) THEN Rejected(Thrown(NotConnected), <<>>)
  ELSE LET call == [jid |-> Jid(phoneNumber), text |-> message]
       IN IF answer.outcome = "returned" THEN Returned(<<>>, <<call>>)
          ELSE Rejected(answer.error, <<call>>)

(* res.status(status).json({ error, message }); res.json(...) is status 200 *)
Response(status, error, message) ==
  [status |-> status, error |-> error, message |-> message]

NoResponse == Response(0, <<>>, <<>>)

(* error instanceof Error ? error.message : "Unknown error" *)
MessageOf(error) == IF error.isError THEN error.message ELSE <<"Unknown error">>

(* POST /api/whatsapp/pair-code after generatePairingCode settled          *)
PairCodeResponse(result) ==
  IF result.outcome = "returned" THEN Response(200, <<>>, <<>>)
  ELSE Response(500, <<"Failed to generate pairing code">>, MessageOf(result.error))

(* POST /api/whatsapp/send-message after sendMessage settled               *)
SendMessageResponse(result) ==
  IF result.outcome = "returned" THEN Response(200, <<>>, <<"Message sent successfully">>)
  ELSE Response(500, <<"Failed to send message">>, MessageOf(result.error))

(* The most recent call of the Connection Manager or request of the admin  *)
(* surface: the operation, its argument, the fields it found, what the     *)
(* transport answered, its outcome and the HTTP response.                  *)
NoOp ==
  [op |-> "none", arg |-> <<>>, caller |-> "none",
   update |-> Update("undefined", NoStatusCode, FALSE),
   before |-> [sock |-> 0, isConnected |-> FALSE, qrCodeGenerated |-> FALSE],
   rendered |-> FALSE, timeouts |-> <<>>, answer |-> Returned(<<>>, <<>>),
   result |-> Returned(<<>>, <<>>), response |-> NoResponse]

(* Counters of the run: prompts rendered since the flag was last cleared,  *)
(* start() calls made by timers, closes that were not logouts, errors      *)
(* thrown to the caller of start(), promise rejections nobody handles,     *)
(* errors caught by handleMessages, replies sent by it, the length of the  *)
(* message log when a reply last failed, start() calls made after boot by  *)
(* other callers, and events that came behind the first event of a batch   *)
(* that was handled, and PATCH requests that found their lead; stopped     *)
(* says that stop() was called and stopDone that it has returned.          *)
NoHistory ==
  [booted |-> FALSE, stopped |-> FALSE, stopDone |-> FALSE, renders |-> 0, timerStarts |-> 0,
   closes |-> 0, thrown |-> 0, unhandled |-> 0, caught |-> 0, handled |-> 0,
   logAtFailure |-> 0, calls |-> 0, passedOver |-> 0, patches |-> 0]

---------------------------------------------------------------------------
(* Bounds and inputs                                                       *)

(* inbound texts handled in one run of Spec *)
MaxMsgs == 6

(* inbound texts handled in one run of SpecMenu *)
MaxMenuMsgs == 3

(* replies the transport rejects in one run of SpecMenu                    *)
MaxSendFailures == 1

Ids == { <<"2348100000001", "@", "s.whatsapp.net">> }

(* Spec: long runs over a small alphabet.  In state main " Quote" opens    *)
(* the form, "Menu" and "start" give the root menu and "3" the AI text; in *)
(* the form "Menu" is an exit keyword, "3" a budget and timeline code.     *)
FormTexts ==
  { <<" ","Q","u","o","t","e">>, <<"M","e","n","u">>, <<"3">>, <<"s","t","a","r","t">> }

(* SpecMenu: short runs over CoreTexts and one more text, drawn at the     *)
(* start from ProbeTexts: every label of the switch, texts that hold a     *)
(* marker, texts that hold none, differently cased and padded texts, and   *)
(* answers to the form's questions.                                        *)
CoreTexts == { <<"8">>, <<"e","x","i","t">> }

MarkerTexts ==
  { <<" ","Q","u","o","t","e"," ">>,
    <<"m","y"," ","p","r","o","j","e","c","t"," ","i","d","e","a">>,
    <<"E","m","a","i","l">>,
    <<"w","e","b","s","h","o","p">>,
    <<"u","s","e"," ","c","r","y","p","t","o">>,
    <<"v","e","n","d","r","a","?">>,
    <<"a"," ","c","a","s","e">>,
    <<"r","e","a","c","h"," ","o","u","t">>,
    <<"a","n"," ","a","p","p">>,
    <<"S","o","f","t","w","a","r","e"," ","D","e","v","e","l","o","p","m","e","n","t">>,
    <<"m","a","i","n","t","a","i","n">>,
    <<"a","p","p"," ","f","o","r"," ","a"," ","w","e","b"," ","c","a","s","e">>,
    <<"e","s","t","i","m","a","t","e","d">>,
    <<"c","o","n","s","u","l","t","i","n","g">> }

PlainTexts ==
  { <<"h","e","l","l","o">>,
    <<"1","8">>,
    <<" ">>,
    <<"0">>,
    <<"h","i"," ","t","h","e","r","e">>,
    <<"c","o","n","s","t","r","u","c","t","o","r">>,
    <<"m","e","n","u","s">> }

FormAnswers ==
  { <<" ","2"," ","w","e","e","k","s"," ">>,
    <<"t","o","S","t","r","i","n","g">>,
    <<"_","_","p","r","o","t","o","_","_">>,
    <<" ","C","A","N","C","E","L"," ">>,
    <<"B","a","c","k">>,
    <<"\t","3">>,
    <<"6">>,
    <<"A","d","a">>,
    <<"N","1","M"," ","-"," ","N","3","M">> }

CasedAliases ==
  { <<"M","L"," ">>, <<"W","e","b"," ","D","e","v">>, <<" ","H","E","L","P">>, <<"H","o","m","e">>, <<"\n","7">> }

ProbeTexts ==
  UNION {MenuCases[i].labels : i \in DOMAIN MenuCases}
    \cup CasedAliases \cup MarkerTexts \cup PlainTexts \cup FormAnswers

NoProbe == <<>>

Message(id, fromMe, conversation, extendedText) ==
  [key |-> [remoteJid |-> id, fromMe |-> fromMe],
   conversation |-> conversation, extendedText |-> extendedText]

Received(log) == Cardinality({i \in DOMAIN log : log[i].messageType = "received"})

SendFailures(log) == Received(log) - Cardinality({i \in DOMAIN log : log[i].isBot = 1})

---------------------------------------------------------------------------
(* Actions: one 'messages.upsert' callback of the transport each           *)

(* a batch whose first event carries a text, in either field               *)
InboundText(texts, maxMsgs, maxFailures) ==
  \E id \in Ids, text \in texts, viaExtended \in BOOLEAN, sendOk \in BOOLEAN :
    /\ Received(botMessages) < maxMsgs
    /\ sendOk \/ SendFailures(botMessages) < maxFailures
    /\ handleMessages(<<IF viaExtended THEN Message(id, FALSE, <<>>, text)
                                       ELSE Message(id, FALSE, text, <<>>)>>, sendOk)

(* a batch whose first event carries no text (a reaction, a receipt)       *)
InboundNoText ==
  \E id \in Ids : handleMessages(<<Message(id, FALSE, <<>>, <<>>)>>, TRUE)

(* an empty batch, or a batch whose first event is the account's own       *)
InboundDropped ==
  \E id \in Ids :
    \/ handleMessages(<<>>, TRUE)
    \/ handleMessages(<<Message(id, TRUE, <<"8">>, <<>>), Message(id, FALSE, <<"8">>, <<>>)>>, TRUE)

Fresh ==
  /\ userStates = << >>
  /\ leads = << >>
  /\ botMessages = << >>
  /\ sent = << >>
  /\ last = NoCall
  /\ run = [id \in Ids |-> NoRun]
  /\ sock = 0
  /\ isConnected = FALSE
  /\ qrCodeGenerated = FALSE
  /\ timers = NoTimers
  /\ starting = NoStarts
  /\ stopping = 0
  /\ sockets = << >>
  /\ conn = NoOp
  /\ hist = NoHistory
  /\ tasks = << >>
  /\ objects = << >>
  /\ stored = << >>

Init == Fresh /\ probe = NoProbe

Next ==
  \/ InboundText(FormTexts, MaxMsgs, 0)
  \/ InboundNoText
  \/ InboundDropped

Spec == Init /\ [][Next]_vars

InitMenu == Fresh /\ probe \in ProbeTexts

(* text-less events change nothing (C10, under Spec) and are left out here *)
NextMenu ==
  \/ InboundText(CoreTexts \cup {probe}, MaxMenuMsgs, MaxSendFailures)
  \/ InboundDropped

SpecMenu == InitMenu /\ [][NextMenu]_vars

---------------------------------------------------------------------------
(* The Connection Manager's run: bounds, inputs and actions                *)

(* sockets one run makes: the first start() and the reconnects             *)
MaxSockets == 4

(* manual sends the transport accepts in one run                           *)
MaxAdminSends == 1

(* phone numbers given to generatePairingCode: 13, 9, 10, 15, 16, 0, 0 and *)
(* 12 digits among other characters                                        *)
PairNumbers ==
  { <<"+","2","3","4"," ","8","1","0"," ","7","5","1"," ","6","0","5","9">>,
    <<"0","8","1","-","0","7","5","-","1","6","0">>,
    <<"0","8","1","0","7","5","1","6","0","5">>,
    <<"2","3","4","8","1","0","7","5","1","6","0","5","9","1","2">>,
    <<"2","3","4","8","1","0","7","5","1","6","0","5","9","1","2","3">>,
    <<>>,
    <<"c","a","l","l"," ","m","e">>,
    <<"+","1"," ","(","2","3","4",")"," ","5","6","7","-","8","9","0","1"," ","x","2">> }

(* what this.sock.requestPairingCode does: a code, an Error, a thrown      *)
(* value that is no Error                                                  *)
PairAnswers ==
  { Returned(<<"ABCD-1234">>, <<>>),
    Rejected(Thrown(<<"Connection Closed">>), <<>>),
    Rejected([isError |-> FALSE, message |-> <<"timeout">>], <<>>) }

(* identities given to sendMessage: a bare number, a user jid, a group     *)
(* jid, the empty string                                                   *)
SendTargets ==
  { <<"2348100000001">>,
    <<"2348100000001", "@", "s.whatsapp.net">>,
    <<"120363000000000001", "@", "g.us">>,
    <<>> }

AdminText == <<"Your proposal is ready">>

SendAnswers ==
  { Returned(<<>>, <<>>), Rejected(Thrown(<<"Connection Closed">>), <<>>) }

FieldsNow ==
  [sock |-> sock, isConnected |-> isConnected, qrCodeGenerated |-> qrCodeGenerated]

(* sockets made, being made and still to be made by a pending timer        *)
Budget ==
  Len(sockets) + Pending(timers) + starting["boot"] + starting["timer"] + starting["call"]

(* start() up to its first await: the call is in flight                    *)
start(caller) ==
  /\ starting' = [starting EXCEPT ![caller] = @ + 1]
  /\ conn' = [NoOp EXCEPT !.op = "start", !.caller = caller, !.before = FieldsNow]
  /\ UNCHANGED <<sock, isConnected, qrCodeGenerated, stopping, sockets>>

(* registerRoutes: try { await whatsappBot.start() } catch { log }, once   *)
Boot ==
  /\ ~hist.booted
  /\ start("boot")
  /\ hist' = [hist EXCEPT !.booted = TRUE]
  /\ UNCHANGED <<timers, engineVars, asyncVars>>

(* a timer that runs out and calls nothing *)
TimerFires_Idle(d) ==
  /\ timers[d] > 0
  /\ timers' = [timers EXCEPT ![d] = @ - 1]
  /\ conn' = [NoOp EXCEPT !.op = "timeout", !.before = FieldsNow]
  /\ UNCHANGED <<sock, isConnected, qrCodeGenerated, starting, stopping, sockets,
                 hist, engineVars, asyncVars>>

(* setTimeout's callback: () => this.start()                               *)
TimerFires(d) ==
  /\ timers[d] > 0
  /\ timers' = [timers EXCEPT ![d] = @ - 1]
  /\ start("timer")
  /\ hist' = [hist EXCEPT !.timerStarts = @ + 1]
  /\ UNCHANGED <<engineVars, asyncVars>>

(* start() after its awaits: makeWASocket and the three ev.on calls        *)
StartSucceeds(caller) ==
  /\ starting[caller] > 0
  /\ starting' = [starting EXCEPT ![caller] = @ - 1]
  /\ sockets' = Append(sockets, "connecting")
  /\ sock' = Len(sockets) + 1
  /\ conn' = [NoOp EXCEPT !.op = "started", !.caller = caller, !.before = FieldsNow]
  /\ UNCHANGED <<isConnected, qrCodeGenerated, timers, stopping, hist,
                 engineVars, asyncVars>>

(* what the calls in the try block of start() throw: the credential load, *)
(* the version negotiation, the socket creation                            *)
StartErrors ==
  { Thrown(<<"useMultiFileAuthState: EACCES">>),
    Thrown(<<"fetchLatestBaileysVersion: fetch failed">>),
    Thrown(<<"makeWASocket: invalid config">>) }

(* a catch block that logs and returns *)
StartCatch_Swallowed(error) == Returned(<<>>, <<>>)

(* catch (error) { logger.error(...); throw error; } *)
StartCatch(error) == Rejected(error, <<>>)

(* start() when useMultiFileAuthState, fetchLatestBaileysVersion or        *)
(* makeWASocket throws, before any ev.on call.  registerRoutes catches     *)
(* what start() throws; the timer's callback returns the rejected promise  *)
(* to nobody.                                                              *)
StartFails(caller) ==
  \E error \in StartErrors :
    LET result == StartCatch(error)
    IN /\ starting[caller] > 0
       /\ starting' = [starting EXCEPT ![caller] = @ - 1]
       /\ hist' = IF result.outcome = "returned" THEN hist
                  ELSE IF caller = "timer" THEN [hist EXCEPT !.unhandled = @ + 1]
                  ELSE [hist EXCEPT !.thrown = @ + 1]
       /\ conn' = [NoOp EXCEPT !.op = "startFailed", !.caller = caller,
                               !.before = FieldsNow,
                               !.answer = Rejected(error, <<>>), !.result = result]
       /\ UNCHANGED <<sock, isConnected, qrCodeGenerated, timers, stopping, sockets,
                      engineVars, asyncVars>>

(* the observer of line 217 called with one update                         *)
handleConnectionUpdate(update) ==
  LET r == ConnectionUpdate(update, isConnected, qrCodeGenerated)
      logout == update.connection = "close" /\ update.statusCode = "loggedOut"
      cleared == update.connection = "open" \/ logout
  IN /\ isConnected' = r.isConnected
     /\ qrCodeGenerated' = r.qrCodeGenerated
     /\ timers' = SetTimeouts(timers, r.timeouts)
     /\ conn' = [NoOp EXCEPT !.op = "connection.update", !.update = update,
                             !.before = FieldsNow, !.rendered = r.rendered,
                             !.timeouts = r.timeouts]
     /\ hist' = [hist EXCEPT
                   !.renders = IF cleared THEN 0
                               ELSE IF r.rendered THEN @ + 1 ELSE @,
                   !.closes = IF update.connection = "close" /\ ~logout
                                THEN @ + 1 ELSE @]
     /\ UNCHANGED <<sock, starting, stopping, engineVars, asyncVars>>

(* The transport's side.  A socket is connecting, open, ending (its logout *)
(* was done) or closed; a closed socket emits nothing.                     *)
QrEvent ==
  \E s \in DOMAIN sockets :
    /\ sockets[s] = "connecting"
    /\ handleConnectionUpdate(Update("undefined", NoStatusCode, TRUE))
    /\ UNCHANGED sockets

ConnectingEvent ==
  \E s \in DOMAIN sockets :
    /\ sockets[s] = "connecting"
    /\ handleConnectionUpdate(Update("connecting", NoStatusCode, FALSE))
    /\ UNCHANGED sockets

OpenEvent ==
  \E s \in DOMAIN sockets :
    /\ sockets[s] = "connecting"
    /\ handleConnectionUpdate(Update("open", NoStatusCode, FALSE))
    /\ sockets' = [sockets EXCEPT ![s] = "open"]

CloseEvent ==
  \E s \in DOMAIN sockets, statusCode \in DisconnectReason \cup {NoStatusCode} :
    /\ sockets[s] # "closed"
    /\ sockets[s] = "ending" => statusCode = "loggedOut"
    /\ statusCode = "loggedOut" \/ Budget < MaxSockets
    /\ handleConnectionUpdate(Update("close", statusCode, FALSE))
    /\ sockets' = [sockets EXCEPT ![s] = "closed"]

(* getConnectionStatus().connected; phoneNumber is read from the socket's  *)
(* user, which is the transport's                                          *)
getConnectionStatus == [connected |-> isConnected]

(* a request the route answers itself, before any call: status 400        *)
BadRequest(route, error) ==
  /\ conn' = [NoOp EXCEPT !.op = route, !.before = FieldsNow,
                          !.response = Response(400, error, <<>>)]
  /\ UNCHANGED <<sock, isConnected, qrCodeGenerated, timers, starting, stopping,
                 sockets, hist, engineVars, asyncVars>>

(* POST /api/whatsapp/pair-code: the body is tested, generatePairingCode   *)
(* reads the fields and calls the transport at most once, and whatever it  *)
(* throws is answered with status 500                                      *)
PairCodeRoute(body, answer) ==
  IF ~Truthy(body.phoneNumber)
    THEN BadRequest("POST /api/whatsapp/pair-code", <<"Phone number is required">>)
    ELSE LET r == PairingCode(sock, isConnected, body.phoneNumber.v, answer)
         IN /\ conn' = [NoOp EXCEPT !.op = "generatePairingCode",
                                    !.arg = body.phoneNumber.v,
                                    !.before = FieldsNow, !.answer = answer,
                                    !.result = r, !.response = PairCodeResponse(r)]
            /\ UNCHANGED <<sock, isConnected, qrCodeGenerated, timers, starting,
                           stopping, sockets, hist, engineVars, asyncVars>>

(* a route that writes the entry before it sends *)
SendMessageRoute_LogsFirst(body, answer) ==
  IF ~Truthy(body.phoneNumber) \/ ~Truthy(body.message)
    THEN BadRequest("POST /api/whatsapp/send-message",
                    <<"Phone number and message are required">>)
    ELSE LET phoneNumber == body.phoneNumber.v
             r == SendMessage(sock, isConnected, phoneNumber, body.message.v, answer)
         IN /\ conn' = [NoOp EXCEPT !.op = "sendMessage", !.arg = phoneNumber,
                                    !.before = FieldsNow, !.answer = answer,
                                    !.result = r, !.response = SendMessageResponse(r)]
            /\ sent' = IF r.outcome = "returned" THEN sent \o r.calls ELSE sent
            /\ botMessages' =
                 createBotMessage(botMessages, phoneNumber, "sent", body.message.v, 0)
            /\ UNCHANGED <<userStates, leads, last, run, probe,
                           sock, isConnected, qrCodeGenerated, timers, starting,
                           stopping, sockets, hist, asyncVars>>

(* POST /api/whatsapp/send-message: the body is tested, sendMessage is     *)
(* awaited, and after it the message is written to the log with isBot 0;   *)
(* sent holds the sends the transport accepted                             *)
SendMessageRoute(body, answer) ==
  IF ~Truthy(body.phoneNumber) \/ ~Truthy(body.message)
    THEN BadRequest("POST /api/whatsapp/send-message",
                    <<"Phone number and message are required">>)
    ELSE LET phoneNumber == body.phoneNumber.v
             r == SendMessage(sock, isConnected, phoneNumber, body.message.v, answer)
         IN /\ conn' = [NoOp EXCEPT !.op = "sendMessage", !.arg = phoneNumber,
                                    !.before = FieldsNow, !.answer = answer,
                                    !.result = r, !.response = SendMessageResponse(r)]
            /\ sent' = IF r.outcome = "returned" THEN sent \o r.calls ELSE sent
            /\ botMessages' =
                 IF r.outcome = "returned"
                   THEN createBotMessage(botMessages, phoneNumber, "sent", body.message.v, 0)
                   ELSE botMessages
            /\ UNCHANGED <<userStates, leads, last, run, probe,
                           sock, isConnected, qrCodeGenerated, timers, starting,
                           stopping, sockets, hist, asyncVars>>

(* stop() up to its await: if (this.sock) { await this.sock.logout() ...   *)
stop ==
  /\ ~hist.stopped
  /\ hist' = [hist EXCEPT !.stopped = TRUE, !.stopDone = (sock = 0)]
  /\ stopping' = sock
  /\ conn' = [NoOp EXCEPT !.op = "stop", !.before = FieldsNow,
                          !.result = Returned(<<>>, IF sock = 0 THEN <<>> ELSE <<"logout">>)]
  /\ UNCHANGED <<sock, isConnected, qrCodeGenerated, timers, starting, sockets,
                 engineVars, asyncVars>>

(* a stop() that returns after the logout and assigns nothing *)
StopReturns_FlagKept ==
  /\ stopping # 0
  /\ stopping' = 0
  /\ sockets' = [sockets EXCEPT ![stopping] = IF @ = "closed" THEN @ ELSE "ending"]
  /\ conn' = [NoOp EXCEPT !.op = "stopped", !.before = FieldsNow]
  /\ hist' = [hist EXCEPT !.stopDone = TRUE]
  /\ UNCHANGED <<sock, isConnected, qrCodeGenerated, timers, starting,
                 engineVars, asyncVars>>

(* stop() after the logout: this.isConnected = false                       *)
StopReturns ==
  /\ stopping # 0
  /\ stopping' = 0
  /\ isConnected' = FALSE
  /\ sockets' = [sockets EXCEPT ![stopping] = IF @ = "closed" THEN @ ELSE "ending"]
  /\ conn' = [NoOp EXCEPT !.op = "stopped", !.before = FieldsNow]
  /\ hist' = [hist EXCEPT !.stopDone = TRUE]
  /\ UNCHANGED <<sock, qrCodeGenerated, timers, starting, engineVars, asyncVars>>

(* stop() when the logout throws: the assignment is not reached            *)
StopFails ==
  /\ stopping # 0
  /\ stopping' = 0
  /\ hist' = [hist EXCEPT !.unhandled = @ + 1]
  /\ conn' = [NoOp EXCEPT !.op = "stopFailed", !.before = FieldsNow,
                          !.result = Rejected(Thrown(<<"Connection Closed">>), <<>>)]
  /\ UNCHANGED <<sock, isConnected, qrCodeGenerated, timers, starting, sockets,
                 engineVars, asyncVars>>

(* request bodies: a phoneNumber that is a string, or none                 *)
PairBodies ==
  {[phoneNumber |-> StringValue(n)] : n \in PairNumbers} \cup {[phoneNumber |-> Undefined]}

SendBodies ==
  {[phoneNumber |-> StringValue(t), message |-> StringValue(AdminText)] : t \in SendTargets}
    \cup {[phoneNumber |-> Undefined, message |-> StringValue(AdminText)],
          [phoneNumber |-> StringValue(<<"2348100000001">>), message |-> Undefined]}

(* the entries of the log written by the send-message route                *)
ManualSends(log) ==
  Cardinality({i \in DOMAIN log : log[i].messageType = "sent" /\ log[i].isBot = 0})

(* the transport answers the calls that reach it: a request that is       *)
(* refused before the call has no answer                                   *)
Unasked == Returned(<<>>, <<>>)

PairAsks(body) ==
  /\ Truthy(body.phoneNumber)
  /\ PairingCode(sock, isConnected, body.phoneNumber.v, Unasked).calls # << >>

SendAsks(body) ==
  /\ Truthy(body.phoneNumber)
  /\ Truthy(body.message)
  /\ ~SendRefused(sock, isConnected)

PairCall ==
  \E body \in PairBodies :
    \E answer \in (IF PairAsks(body) THEN PairAnswers ELSE {Unasked}) :
      PairCodeRoute(body, answer)

SendCall ==
  \E body \in SendBodies :
    \E answer \in (IF SendAsks(body) THEN SendAnswers ELSE {Unasked}) :
      /\ ManualSends(botMessages) < MaxAdminSends
      /\ SendMessageRoute(body, answer)

Reconnect == \E d \in ReconnectDelays : TimerFires(d)

StartReturns == \E caller \in Callers : StartSucceeds(caller) \/ StartFails(caller)

(* the life cycle of the connection *)
NextLife ==
  \/ Boot
  \/ StartReturns
  \/ Reconnect
  \/ QrEvent
  \/ ConnectingEvent
  \/ OpenEvent
  \/ CloseEvent

(* the life cycle, the calls of the admin surface and the shutdown *)
NextConn ==
  \/ NextLife
  \/ PairCall
  \/ SendCall
  \/ stop
  \/ StopReturns
  \/ StopFails

SpecConn == Init /\ [][NextConn]_vars

(* The life cycle, where a timer that was set runs out and a start() in    *)
(* flight returns or throws.  Nothing obliges the transport to send an     *)
(* update.                                                                 *)
SpecConnFair ==
  Init /\ [][NextLife]_vars /\ WF_vars(Reconnect) /\ WF_vars(StartReturns)

(* start() calls one run makes after the one of registerRoutes             *)
MaxStartCalls == 2

(* whatsappBot.start() called again by the host process: start() looks at  *)
(* no field before it makes its socket                                     *)
StartCall ==
  /\ hist.booted
  /\ hist.calls < MaxStartCalls
  /\ Budget < MaxSockets
  /\ start("call")
  /\ hist' = [hist EXCEPT !.calls = @ + 1]
  /\ UNCHANGED <<timers, engineVars, asyncVars>>

(* the life cycle with further calls of start()                            *)
NextStart ==
  \/ NextLife
  \/ StartCall

SpecStart == Init /\ [][NextStart]_vars

---------------------------------------------------------------------------
(* handleMessages as the event emitter runs it: the call returns at the    *)
(* first await and the rest of the handler runs later, one piece for each  *)
(* await, while other calls may be made.  A session is an object: the Map  *)
(* userStates holds references (stored), handlers that took their session  *)
(* from the Map share it, and userStates is the Map with the references    *)
(* followed.                                                               *)

(* batches delivered in one run of SpecAsync, after the conversation it    *)
(* starts from                                                             *)
MaxAsyncMsgs == 3

(* handleMessages calls in flight at one time                              *)
MaxInFlight == 2

(* replies the transport rejects in one run of SpecAsync                   *)
MaxReplyFailures == 1

AsyncTexts == { <<"8">>, <<"A","d","a">> }

(* SpecAsync starts after a conversation that was handled one message at a *)
(* time: none, or the one that leaves the form at its last question        *)
AsyncPrefixes ==
  { << >>, << <<" ","Q","u","o","t","e">>, <<"3">>, <<"3">>, <<"3">>, <<"3">> >> }

Task(phoneNumber, messageText, handle) ==
  [phoneNumber |-> phoneNumber, messageText |-> messageText, sock |-> handle,
   pc |-> "received", userState |-> 0, responseMessage |-> <<>>]

View(objs, map) == [p \in DOMAIN map |-> objs[map[p]]]

Remove(seq, i) == SubSeq(seq, 1, i - 1) \o SubSeq(seq, i + 1, Len(seq))

(* a handler whose error escapes: the promise of handleMessages rejects    *)
Caught_Rethrown(history) == [history EXCEPT !.unhandled = @ + 1]

(* catch (error) { logger.error('Error handling message:', error) }        *)
Caught(history) == [history EXCEPT !.caught = @ + 1]

(* handleMessages(m) up to the first await of handleMessage: the           *)
(* 'received' entry is written and the call is in flight                   *)
handleMessagesCall(m) ==
  IF m = <<>> \/ FirstMessage(m).key.fromMe
    THEN UNCHANGED vars
    ELSE LET phoneNumber == FirstMessage(m).key.remoteJid
             messageText == ExtractText(FirstMessage(m))
         IN IF NoText(messageText)
              THEN UNCHANGED vars
              ELSE /\ botMessages' =
                        createBotMessage(botMessages, phoneNumber, "received", messageText, 0)
                   /\ tasks' = Append(tasks, Task(phoneNumber, messageText, sock))
                   /\ UNCHANGED <<userStates, leads, sent, last, run, probe,
                                  connVars, objects, stored>>

(* after await storage.createBotMessage: the session is taken from the Map *)
(* or made, and handleLeadForm or handleMainMenu runs on it up to its      *)
(* return, or up to await storage.createLead at step 5                     *)
ResumeReceived(i) ==
  LET t == tasks[i]
      known == t.phoneNumber \in DOMAIN stored
      ref == IF known THEN stored[t.phoneNumber] ELSE Len(objects) + 1
      heap == IF known THEN objects ELSE Append(objects, DefaultState)
      userState == heap[ref]
      r == Dispatch(t.phoneNumber, t.messageText, userState)
      saving == r.createLead # <<>>
  IN /\ t.pc = "received"
     /\ objects' = [heap EXCEPT ![ref] =
                      IF saving
                        THEN [userState EXCEPT !.leadData.name = r.createLead[1].name]
                        ELSE r.userState]
     /\ leads' = IF saving THEN createLead(leads, r.createLead[1]) ELSE leads
     /\ tasks' = [tasks EXCEPT ![i] =
                    [t EXCEPT !.pc = IF saving THEN "saved" ELSE "dispatched",
                              !.userState = ref,
                              !.responseMessage = IF saving THEN <<>> ELSE r.reply]]
     /\ userStates' = View(objects', stored)
     /\ UNCHANGED <<botMessages, sent, last, run, probe, connVars, stored>>

(* after await storage.createLead: the reset and the summary of case 5     *)
ResumeSaved(i) ==
  LET t == tasks[i]
      reset == [objects[t.userState] EXCEPT !.currentMenu = "main", !.leadFormStep = 0,
                                            !.leadData = EmptyLeadData]
  IN /\ t.pc = "saved"
     /\ objects' = [objects EXCEPT ![t.userState] = reset]
     /\ tasks' = [tasks EXCEPT ![i] =
                    [t EXCEPT !.pc = "dispatched",
                              !.responseMessage = SummaryText(reset.leadData)]]
     /\ userStates' = View(objects', stored)
     /\ UNCHANGED <<leads, botMessages, sent, last, run, probe, connVars, stored>>

(* after the await of the handler: userStates.set, then sock.sendMessage   *)
(* is called and awaited                                                   *)
ResumeDispatched(i) ==
  LET t == tasks[i]
  IN /\ t.pc = "dispatched"
     /\ stored' = SetState(stored, t.phoneNumber, t.userState)
     /\ userStates' = View(objects, stored')
     /\ tasks' = IF t.responseMessage # <<>>
                   THEN [tasks EXCEPT ![i] = [t EXCEPT !.pc = "sending"]]
                   ELSE Remove(tasks, i)
     /\ UNCHANGED <<leads, botMessages, sent, last, run, probe, connVars, objects>>

(* a handler that returns after the send and writes nothing *)
ReplySent_Unlogged(i) ==
  LET t == tasks[i]
  IN /\ t.pc = "sending"
     /\ sent' = Append(sent, [jid |-> t.phoneNumber, text |-> t.responseMessage])
     /\ tasks' = Remove(tasks, i)
     /\ hist' = [hist EXCEPT !.handled = @ + 1]
     /\ UNCHANGED <<userStates, leads, botMessages, last, run, probe, sock, isConnected,
                    qrCodeGenerated, timers, starting, stopping, sockets, conn,
                    objects, stored>>

(* the send is done: the 'sent' entry is written and the handler returns   *)
ReplySent(i) ==
  LET t == tasks[i]
  IN /\ t.pc = "sending"
     /\ sent' = Append(sent, [jid |-> t.phoneNumber, text |-> t.responseMessage])
     /\ botMessages' =
          createBotMessage(botMessages, t.phoneNumber, "sent", t.responseMessage, 1)
     /\ tasks' = Remove(tasks, i)
     /\ hist' = [hist EXCEPT !.handled = @ + 1]
     /\ UNCHANGED <<userStates, leads, last, run, probe, sock, isConnected,
                    qrCodeGenerated, timers, starting, stopping, sockets, conn,
                    objects, stored>>

(* a catch block that drops the session of the sender *)
ReplyFails_DropsSession(i) ==
  LET t == tasks[i]
  IN /\ t.pc = "sending"
     /\ tasks' = Remove(tasks, i)
     /\ hist' = [Caught(hist) EXCEPT !.logAtFailure = Len(botMessages)]
     /\ stored' = [p \in DOMAIN stored \ {t.phoneNumber} |-> stored[p]]
     /\ userStates' = View(objects, stored')
     /\ UNCHANGED <<leads, botMessages, sent, last, run, probe, sock,
                    isConnected, qrCodeGenerated, timers, starting, stopping,
                    sockets, conn, objects>>

(* the send throws: handleMessage throws at its await and handleMessages   *)
(* catches                                                                 *)
ReplyFails(i) ==
  LET t == tasks[i]
  IN /\ t.pc = "sending"
     /\ tasks' = Remove(tasks, i)
     /\ hist' = [Caught(hist) EXCEPT !.logAtFailure = Len(botMessages)]
     /\ UNCHANGED <<userStates, leads, botMessages, sent, last, run, probe, sock,
                    isConnected, qrCodeGenerated, timers, starting, stopping,
                    sockets, conn, objects, stored>>

(* the calls made so far: each ends in ReplySent or ReplyFails             *)
Delivered == hist.handled + hist.caught + Len(tasks)

(* the observer of line 218 called with a batch, by an open socket         *)
InboundAsync ==
  \E id \in Ids, text \in AsyncTexts, s \in DOMAIN sockets :
    /\ sockets[s] = "open"
    /\ Delivered < MaxAsyncMsgs
    /\ Len(tasks) < MaxInFlight
    /\ handleMessagesCall(<<Message(id, FALSE, text, <<>>)>>)

Resume ==
  \E i \in DOMAIN tasks : ResumeReceived(i) \/ ResumeSaved(i) \/ ResumeDispatched(i)

ReplySettles ==
  \E i \in DOMAIN tasks :
    \/ ReplySent(i)
    \/ hist.caught < MaxReplyFailures /\ ReplyFails(i)

(* what handleMessage leaves when it runs to its end alone and the send is *)
(* accepted                                                                *)
Sequential(st, message) ==
  LET phoneNumber == message.key.remoteJid
      messageText == ExtractText(message)
      r == Dispatch(phoneNumber, messageText, GetState(st.userStates, phoneNumber))
      received == createBotMessage(st.botMessages, phoneNumber, "received", messageText, 0)
  IN [userStates |-> SetState(st.userStates, phoneNumber, r.userState),
      leads |-> IF r.createLead = <<>> THEN st.leads ELSE createLead(st.leads, r.createLead[1]),
      botMessages |-> createBotMessage(received, phoneNumber, "sent", r.reply, 1),
      sent |-> Append(st.sent, [jid |-> phoneNumber, text |-> r.reply])]

Sender == CHOOSE id \in Ids : TRUE

RECURSIVE After(_)
After(texts) ==
  IF texts = << >>
    THEN [userStates |-> << >>, leads |-> << >>, botMessages |-> << >>, sent |-> << >>]
    ELSE Sequential(After(SubSeq(texts, 1, Len(texts) - 1)),
                    Message(Sender, FALSE, texts[Len(texts)], <<>>))

(* the socket of the first start() is open                                 *)
Connected ==
  /\ sock = 1
  /\ isConnected = TRUE
  /\ qrCodeGenerated = FALSE
  /\ timers = NoTimers
  /\ starting = NoStarts
  /\ stopping = 0
  /\ sockets = <<"open">>
  /\ conn = NoOp
  /\ hist = [NoHistory EXCEPT !.booted = TRUE]

InitAsync ==
  /\ \E texts \in AsyncPrefixes :
       LET st == After(texts)
       IN /\ userStates = st.userStates
          /\ leads = st.leads
          /\ botMessages = st.botMessages
          /\ sent = st.sent
          /\ objects = IF texts = << >> THEN << >> ELSE <<st.userStates[Sender]>>
          /\ stored = IF texts = << >> THEN << >> ELSE (Sender :> 1)
  /\ last = NoCall
  /\ run = [id \in Ids |-> NoRun]
  /\ probe = NoProbe
  /\ tasks = << >>
  /\ Connected

NextAsync ==
  \/ InboundAsync
  \/ Resume
  \/ ReplySettles

SpecAsync == InitAsync /\ [][NextAsync]_vars

---------------------------------------------------------------------------
(* The Repository under the conversation and the admin surface together:   *)
(* batches of one or two events, manual sends and PATCH /api/leads/:id,    *)
(* after a conversation that left the form at its last question.           *)

(* batches handled in one run of SpecAdmin, after the conversation it      *)
(* starts from                                                             *)
MaxAdminMsgs == 2

(* PATCH requests that find their lead in one run of SpecAdmin             *)
MaxPatches == 1

AdminPrefix == << <<" ","Q","u","o","t","e">>, <<"3">>, <<"3">>, <<"3">>, <<"3">> >>

AdminTexts == { <<"A","d","a">>, <<" ","Q","u","o","t","e">> }

(* an identity whose events only ever come behind another event            *)
Bystander == <<"2348100000002", "@", "s.whatsapp.net">>

(* a text that only ever comes behind another event; handled in the form   *)
(* it would end the form                                                   *)
FollowerText == <<"e","x","i","t">>

(* what comes behind the first event of a batch: nothing, an event of      *)
(* another sender, an event of the same sender                             *)
Followers ==
  { << >>,
    <<Message(Bystander, FALSE, <<"8">>, <<>>)>>,
    <<Message(Sender, FALSE, FollowerText, <<>>)>> }

(* a batch whose first event carries a text                                *)
InboundBatch ==
  \E text \in AdminTexts, rest \in Followers :
    /\ Received(botMessages) < Len(AdminPrefix) + MaxAdminMsgs
    /\ handleMessages(<<Message(Sender, FALSE, text, <<>>)>> \o rest, TRUE)

(* an empty batch, or a batch whose first event is the account's own       *)
InboundOwn ==
  \/ handleMessages(<<>>, TRUE)
  \/ handleMessages(<<Message(Bystander, TRUE, <<"8">>, <<>>),
                      Message(Bystander, FALSE, <<"8">>, <<>>)>>, TRUE)

(* the :id of the path: the key of the first lead, a key no lead has       *)
PatchIds == {1, 7}

(* req.body, passed to updateLead as it came                               *)
PatchBodies ==
  { ("status" :> "contacted"),
    ("name" :> StringValue(<<"E","v","e">>)),
    ("phoneNumber" :> Bystander) @@ ("id" :> 7) }

(* PATCH /api/leads/:id: 404 when updateLead returns undefined             *)
PatchLeadRoute(id, updates) ==
  LET found == id \in DOMAIN leads
  IN /\ leads' = updateLead(leads, id, updates)
     /\ conn' = [NoOp EXCEPT !.op = "PATCH /api/leads/:id", !.before = FieldsNow,
                             !.response = IF found THEN Response(200, <<>>, <<>>)
                                          ELSE Response(404, <<"Lead not found">>, <<>>)]
     /\ hist' = IF found THEN [hist EXCEPT !.patches = @ + 1] ELSE hist
     /\ UNCHANGED <<userStates, botMessages, sent, last, run, probe, sock, isConnected,
                    qrCodeGenerated, timers, starting, stopping, sockets, asyncVars>>

PatchCall ==
  \E id \in PatchIds, updates \in PatchBodies :
    /\ hist.patches < MaxPatches
    /\ PatchLeadRoute(id, updates)

InitAdmin ==
  /\ LET st == After(AdminPrefix)
     IN /\ userStates = st.userStates
        /\ leads = st.leads
        /\ botMessages = st.botMessages
        /\ sent = st.sent
  /\ last = NoCall
  /\ run = [id \in Ids |-> NoRun]
  /\ probe = NoProbe
  /\ tasks = << >>
  /\ objects = << >>
  /\ stored = << >>
  /\ Connected

NextAdmin ==
  \/ InboundBatch
  \/ InboundOwn
  \/ SendCall
  \/ PatchCall

SpecAdmin == InitAdmin /\ [][NextAdmin]_vars

---------------------------------------------------------------------------
(* The lead form under the wide alphabet: one sender opens the form and    *)
(* answers each of its questions with the text drawn at the start or with  *)
(* "8", until the form lets the session go.  The transport accepts every   *)
(* reply.                                                                  *)

FormOpener == <<" ","Q","u","o","t","e">>

(* the first text of the conversation opens the form                       *)
FormOpens ==
  /\ botMessages = << >>
  /\ handleMessages(<<Message(Sender, FALSE, FormOpener, <<>>)>>, TRUE)

(* a text sent to a session that is in the form                            *)
FormAnswer ==
  \E text \in {probe, <<"8">>}, viaExtended \in BOOLEAN :
    /\ GetState(userStates, Sender).currentMenu = "lead_form"
    /\ handleMessages(<<IF viaExtended THEN Message(Sender, FALSE, <<>>, text)
                                       ELSE Message(Sender, FALSE, text, <<>>)>>, TRUE)

NextForm ==
  \/ FormOpens
  \/ FormAnswer

SpecForm == InitMenu /\ [][NextForm]_vars

---------------------------------------------------------------------------
(* handleLeadForm on the sessions its parameter type admits: the Map holds *)
(* a session with currentMenu 'lead_form' and any step from 0 to MaxStep,  *)
(* with an empty or a begun draft, and texts are then handled as ever.  No *)
(* conversation leaves a step outside 1..5 in the Map; this specification  *)
(* is for what the function does when it is handed one.                    *)

(* the largest leadFormStep of a session SpecStep starts from              *)
MaxStep == 6

(* texts handled in one run of SpecStep                                    *)
MaxStepMsgs == 2

BegunDraft ==
  [EmptyLeadData EXCEPT !.projectType = StringValue(<<"s","h","o","p">>),
                        !.budget = StringValue(<<"N1M - N3M">>)]

StepStates ==
  { [currentMenu |-> "lead_form", leadFormStep |-> k, leadData |-> d] :
      k \in 0..MaxStep, d \in {EmptyLeadData, BegunDraft} }

InitStep ==
  /\ userStates \in {(Sender :> st) : st \in StepStates}
  /\ leads = << >>
  /\ botMessages = << >>
  /\ sent = << >>
  /\ last = NoCall
  /\ run = [id \in Ids |-> NoRun]
  /\ probe = NoProbe
  /\ tasks = << >>
  /\ objects = << >>
  /\ stored = << >>
  /\ Connected

NextStep == InboundText(FormTexts, MaxStepMsgs, 0)

SpecStep == InitStep /\ [][NextStep]_vars

---------------------------------------------------------------------------
(* Two identities: the one of the conversation so far, at the last         *)
(* question of the form, and one the bot has not heard of.  Their texts    *)
(* arrive in any order, each handled to its end.                           *)

(* texts handled in one run of SpecPair, after the conversation it starts  *)
(* from                                                                    *)
MaxPairMsgs == 4

PairIds == {Sender, Bystander}

PairTexts == { <<"8">>, <<"A","d","a">> }

InboundPair ==
  \E id \in PairIds, text \in PairTexts :
    /\ Received(botMessages) < Len(AdminPrefix) + MaxPairMsgs
    /\ handleMessages(<<Message(id, FALSE, text, <<>>)>>, TRUE)

InitPair ==
  /\ LET st == After(AdminPrefix)
     IN /\ userStates = st.userStates
        /\ leads = st.leads
        /\ botMessages = st.botMessages
        /\ sent = st.sent
  /\ last = NoCall
  /\ run = [id \in PairIds |-> NoRun]
  /\ probe = NoProbe
  /\ tasks = << >>
  /\ objects = << >>
  /\ stored = << >>
  /\ Connected

NextPair == InboundPair

SpecPair == InitPair /\ [][NextPair]_vars

---------------------------------------------------------------------------
(* Properties                                                              *)

Session(id) == GetState(userStates, id)

(* the most recent call was given a text *)
Handled == last.op = "called" /\ last.messageText # <<>>

InForm(userState) == userState.currentMenu = "lead_form"

HandledInForm == Handled /\ InForm(last.before) /\ last.before.leadFormStep \in 1..5

HandledInMain == Handled /\ last.before.currentMenu = "main"

ExitTexts ==
  { <<"m","e","n","u">>, <<" ","C","A","N","C","E","L"," ">>, <<"E","x","i","t">>, <<"b","a","c","k","\n">>, <<"B","A","C","K">>, <<"\t","m","e","n","u"," ">>, <<"c","a","n","c","e","l">> }

(* C1: five texts, none an exit keyword, fed to a session that entered the *)
(* lead form make exactly one createLead call, with status 'new', and      *)
(* leave the session at main / step 0 / empty draft; before the fifth text *)
(* no createLead call is made, the form is at step n+1 after n texts, and  *)
(* a form that was just entered is at step 1 with an empty draft.          *)
C1_OneLeadPerFormRun ==
  \A id \in Ids :
    LET n == Len(run[id].inputs)
        st == Session(id)
    IN /\ n <= 5
       /\ n < 5 => run[id].created = 0
       /\ n = 5 => run[id].created = 1 /\ st = DefaultState
       /\ InForm(st) => st.leadFormStep = n + 1
       /\ InForm(st) /\ n = 0 => st.leadData = EmptyLeadData
       /\ Handled /\ last.created # <<>> =>
            /\ Len(last.created) = 1
            /\ last.created[1].status = "new"
            /\ last.phoneNumber = id => n = 5

C1_Witness ==
  \E id \in Ids :
    /\ Len(run[id].inputs) = 5
    /\ Handled /\ last.phoneNumber = id /\ last.before.leadFormStep = 5
    /\ Len(leads) = 1

(* C2: the reply to the name given at step 5 contains that name and the    *)
(* project type, budget and timeline of the draft.                         *)
C2_SummaryEchoesDraft ==
  HandledInForm /\ last.before.leadFormStep = 5 /\ ~IsExitKeyword(last.messageText) =>
    /\ includes(last.reply, trim(last.messageText))
    /\ includes(last.reply, TemplateString(last.before.leadData.projectType))
    /\ includes(last.reply, TemplateString(last.before.leadData.budget))
    /\ includes(last.reply, TemplateString(last.before.leadData.timeline))

(* C3: an exit keyword at any lead-form step resets the session to main /  *)
(* step 0 / empty draft, is answered with the root menu, writes no draft   *)
(* field and creates no lead; this holds of the call just made and of      *)
(* every exit text that could be sent to a session now in the form.        *)
C3_ExitKeywordResets ==
  /\ HandledInForm /\ IsExitKeyword(last.messageText) =>
       /\ Session(last.phoneNumber) = DefaultState
       /\ last.reply = getMainMenu
       /\ last.created = <<>>
  /\ \A id \in Ids, text \in ExitTexts :
       InForm(Session(id)) =>
         LET r == Dispatch(id, text, Session(id))
         IN r.userState = DefaultState /\ r.reply = getMainMenu /\ r.createLead = <<>>

C3_Witness ==
  /\ HandledInForm /\ IsExitKeyword(last.messageText)
  /\ last.before.leadFormStep = 5
  /\ last.before.leadData.description # Undefined

NavKeywords ==
  { <<"m","e","n","u">>, <<"s","t","a","r","t">>, <<"m","a","i","n">>, <<"h","o","m","e">> }

NavTexts ==
  { <<"m","e","n","u">>, <<"s","t","a","r","t">>, <<"m","a","i","n">>, <<"h","o","m","e">>, <<" ","S","t","a","r","t"," ">>, <<"M","A","I","N">>, <<"H","o","m","e","\n">>, <<"M","E","N","U"," ">> }

Canonical(messageText) == toLowerCase(trim(messageText))

(* the answer of the lead form at a step: the prompt of the next step, or  *)
(* the summary and a lead at step 5                                        *)
TakenAsAnswer(before, r) ==
  /\ r.reply # getMainMenu
  /\ before.leadFormStep < 5 =>
       r.userState.leadFormStep = before.leadFormStep + 1 /\ r.createLead = <<>>
  /\ before.leadFormStep = 5 => r.createLead # <<>>

NavigationOutcome(messageText, before, r) ==
  /\ before.currentMenu = "main" => r.reply = getMainMenu
  /\ InForm(before) /\ Canonical(messageText) = <<"m","e","n","u">> =>
       r.reply = getMainMenu
  /\ InForm(before) /\ Canonical(messageText) # <<"m","e","n","u">> =>
       TakenAsAnswer(before, r)

(* C4 as claimed: a navigation keyword is answered with the root menu in   *)
(* every session state.                                                    *)
C4_NavigationAlwaysRootMenu ==
  Handled /\ Canonical(last.messageText) \in NavKeywords => last.reply = getMainMenu

(* C4 amended: a navigation keyword is answered with the root menu when    *)
(* the session is in main; at a lead-form step 1..5 only menu is (it is    *)
(* an exit keyword), and start, main, home are taken as the answer to the  *)
(* step.  Stated of the call just made and of every navigation text that   *)
(* could be sent to the current session.                                   *)
C4_NavigationRootMenuInMain ==
  /\ Handled /\ Canonical(last.messageText) \in NavKeywords =>
       NavigationOutcome(last.messageText, last.before,
                         [reply |-> last.reply,
                          userState |-> Session(last.phoneNumber),
                          createLead |-> last.created])
  /\ \A id \in Ids, text \in NavTexts :
       NavigationOutcome(text, Session(id), Dispatch(id, text, Session(id)))

C4_Witness ==
  /\ HandledInForm /\ last.before.leadFormStep = 4
  /\ Canonical(last.messageText) = <<"s","t","a","r","t">>
  /\ last.reply = NamePrompt
  /\ Session(last.phoneNumber).leadData.description = StringValue(<<"s","t","a","r","t">>)

ResponseOfCode ==
  << CustomDevelopmentText, getProductsInfo, getAIInfo, getWebDevInfo, getBlockchainInfo,
     getVendraInfo, getPortfolioInfo, QuoteText, getContactInfo >>

(* the labels the switch groups with the digit k *)
AliasesOfCode(k) ==
  UNION {MenuCases[i].labels : i \in {j \in DOMAIN MenuCases : <<k>> \in MenuCases[j].labels}}

CodeDigits == <<"1", "2", "3", "4", "5", "6", "7", "8", "9">>

(* C5: in state main a text whose trimmed, lower-cased form is an alias of *)
(* menu code k gets exactly the canned response of code k, whatever was    *)
(* handled before.                                                         *)
C5_AliasGetsResponseOfCode ==
  \A k \in 1..9 :
    HandledInMain /\ Canonical(last.messageText) \in AliasesOfCode(CodeDigits[k]) =>
      last.reply = ResponseOfCode[k]

C5_Witness ==
  /\ HandledInMain /\ last.messageText = <<"W","e","b"," ","D","e","v">>
  /\ last.reply = getWebDevInfo
  /\ Len(sent) >= 2
  /\ \E i \in DOMAIN sent : sent[i].text = QuoteText

AllLabels == UNION {MenuCases[i].labels : i \in DOMAIN MenuCases}

AllMarkers == UNION {MarkerGroups[i].markers : i \in DOMAIN MarkerGroups}

Unrecognized(messageText) ==
  /\ Canonical(messageText) \notin AllLabels
  /\ \A mk \in AllMarkers : ~includes(Canonical(messageText), mk)

(* C6: in state main a text that is no label and holds no marker is        *)
(* answered with the root menu and leaves the session as it was; no text   *)
(* handled in state main gets an empty reply.                              *)
C6_UnrecognizedGetsRootMenu ==
  /\ HandledInMain /\ Unrecognized(last.messageText) =>
       last.reply = getMainMenu /\ Session(last.phoneNumber) = last.before
  /\ HandledInMain => last.reply # <<>>

C6_Witness ==
  /\ HandledInMain /\ Unrecognized(last.messageText)
  /\ last.messageText = <<"h","i"," ","t","h","e","r","e">>
  /\ Len(sent) >= 2

(* C7: in state main the session changes exactly when the quote response   *)
(* is given, and then to lead_form / step 1 with the draft untouched.      *)
C7_OnlyQuoteChangesSession ==
  HandledInMain =>
    LET after == Session(last.phoneNumber)
    IN /\ after # last.before <=> last.reply = QuoteText
       /\ last.reply = QuoteText =>
            after = [last.before EXCEPT !.currentMenu = "lead_form", !.leadFormStep = 1]

C7_Witness ==
  /\ HandledInMain /\ last.reply = QuoteText
  /\ last.messageText = <<"c","o","n","s","u","l","t","i","n","g">>
  /\ Session(last.phoneNumber).leadFormStep = 1

(* the value the claim expects in the draft: the label of a code, or the   *)
(* text as typed                                                           *)
LabelOrVerbatim(table, input) ==
  IF input \in DOMAIN table THEN StringValue(table[input]) ELSE StringValue(input)

(* C8: at step 2 a code 1..5 stores its budget label and at step 3 a code  *)
(* 1..4 stores its timeline label; every other text is stored as typed.    *)
C8_CodeOrVerbatim ==
  HandledInForm /\ ~IsExitKeyword(last.messageText) =>
    LET input == trim(last.messageText)
        draft == Session(last.phoneNumber).leadData
    IN /\ last.before.leadFormStep = 2 => draft.budget = LabelOrVerbatim(budgetOptions, input)
       /\ last.before.leadFormStep = 3 => draft.timeline = LabelOrVerbatim(timelineOptions, input)

(* C9: the lead created at step 5 carries the sender as phoneNumber, the   *)
(* step-1 text as projectType without any mapping, the draft's budget and  *)
(* timeline as steps 2 and 3 decoded them, the step-4 text as description, *)
(* the step-5 text as name and status 'new', and is the record stored.     *)
C9_LeadCarriesRunValues ==
  Handled /\ last.created # <<>> =>
    LET lead == last.created[1]
        inputs == run[last.phoneNumber].inputs
    IN /\ Len(inputs) = 5
       /\ lead.phoneNumber = last.phoneNumber
       /\ lead.projectType = StringValue(trim(inputs[1]))
       /\ lead.budget = OrElse(PropertyGet(budgetOptions, trim(inputs[2])),
                               StringValue(trim(inputs[2])))
       /\ lead.timeline = OrElse(PropertyGet(timelineOptions, trim(inputs[3])),
                                 StringValue(trim(inputs[3])))
       /\ lead.budget = last.before.leadData.budget
       /\ lead.timeline = last.before.leadData.timeline
       /\ lead.description = StringValue(trim(inputs[4]))
       /\ lead.name = StringValue(trim(inputs[5]))
       /\ lead.status = "new"
       /\ leads # <<>>
       /\ leads[Len(leads)] = [phoneNumber |-> lead.phoneNumber, name |-> lead.name,
                               projectType |-> lead.projectType, budget |-> lead.budget,
                               timeline |-> lead.timeline, description |-> lead.description,
                               status |-> "new", id |-> Len(leads)]

C9_Witness ==
  /\ Handled /\ last.created # <<>>
  /\ leads # <<>>
  /\ leads[1].projectType = StringValue(<<"3">>)
  /\ leads[1].budget = StringValue(<<"N1M - N3M">>)
  /\ leads[1].timeline = StringValue(<<"3-6 months">>)
  /\ leads[1].name = StringValue(<<"Q","u","o","t","e">>)

(* C10: a handleMessage call whose extracted text is empty changes         *)
(* nothing: no log entry, no lead, no reply sent, no session entry added   *)
(* or changed.                                                             *)
C10_EmptyTextIsNoOp ==
  [][ last' # last /\ last'.op = "called" /\ last'.messageText = <<>>
        => UNCHANGED <<userStates, leads, botMessages, sent>> ]_vars

C10_Witness ==
  /\ last.op = "called" /\ last.messageText = <<>>
  /\ last.phoneNumber \in DOMAIN userStates
  /\ InForm(userStates[last.phoneNumber])
  /\ botMessages # <<>>

C10_WitnessNoSession ==
  /\ last.op = "called" /\ last.messageText = <<>>
  /\ userStates = << >>

---------------------------------------------------------------------------
(* C11: inbound batches are handled strictly one after another: no two     *)
(* handleMessage executions are ever in progress at the same time.         *)
C11_OneHandlerAtATime == Len(tasks) <= 1

(* a step in which the reply of one handler in flight fails: the handler   *)
(* ends and writes no 'sent' entry                                         *)
ReplyFailure ==
  \E i \in DOMAIN tasks :
    /\ tasks[i].pc = "sending"
    /\ tasks' = Remove(tasks, i)
    /\ botMessages' = botMessages

(* C12: a failure raised while an inbound message is handled is caught in  *)
(* handleMessages: nothing is thrown to the transport's event dispatch,    *)
(* the fields, timers and sockets of the Connection Manager are as before, *)
(* the other handlers in flight are untouched and the socket goes on       *)
(* delivering.                                                             *)
C12_FailureIsCaught ==
  [][ ReplyFailure =>
        /\ hist'.unhandled = hist.unhandled
        /\ hist'.caught = hist.caught + 1
        /\ UNCHANGED <<sock, isConnected, qrCodeGenerated, timers, starting,
                       stopping, sockets>>
        /\ UNCHANGED <<userStates, leads, sent, objects, stored>> ]_vars

(* a reply failed, and a batch delivered after that was handled to its end *)
(* and answered                                                            *)
C12_Witness ==
  /\ hist.caught = 1
  /\ tasks = << >>
  /\ \E i, j \in DOMAIN botMessages :
       /\ hist.logAtFailure < i
       /\ i < j
       /\ botMessages[i].messageType = "received"
       /\ botMessages[j].messageType = "sent"
       /\ botMessages[j].isBot = 1
       /\ \A k \in DOMAIN botMessages :
            (k > hist.logAtFailure /\ k # i) => botMessages[k].messageType = "sent"

---------------------------------------------------------------------------
(* the step is a close event with the given cause *)
ClosedWith(statusCode) ==
  /\ conn'.op = "connection.update"
  /\ conn'.update.connection = "close"
  /\ conn'.update.statusCode = statusCode

(* C13: a close event whose cause is logged-out schedules no reconnect and *)
(* clears the debounce flag; a close event whose cause is restart-required *)
(* schedules exactly one reconnect, with the short delay.                  *)
C13_CloseSchedules ==
  [][ /\ ClosedWith("loggedOut") => (timers' = timers /\ qrCodeGenerated' = FALSE)
      /\ ClosedWith("restartRequired") =>
            timers' = [timers EXCEPT ![RestartDelay] = @ + 1] ]_vars

(* a restart-required close has just set its timer, the only one pending   *)
C13_Witness ==
  /\ conn.op = "connection.update"
  /\ conn.update.connection = "close"
  /\ conn.update.statusCode = "restartRequired"
  /\ timers = [NoTimers EXCEPT ![RestartDelay] = 1]

(* a logged-out close of a reconnected socket cleared a flag that was set  *)
C13_WitnessLogout ==
  /\ conn.op = "connection.update"
  /\ conn.update.connection = "close"
  /\ conn.update.statusCode = "loggedOut"
  /\ conn.before.qrCodeGenerated
  /\ ~qrCodeGenerated
  /\ hist.timerStarts >= 1
  /\ Pending(timers) = 0

(* C14: reconnection has no retry cutoff: after every close event whose    *)
(* cause is not logged-out, however many closes and reconnects came        *)
(* before, a timer calls start() again.                                    *)
C14_EveryCloseRestarts ==
  \A n \in 1..(MaxSockets + 1) : (hist.closes >= n) ~> (hist.timerStarts >= n)

(* the second close of a run was followed by the second restart            *)
C14_Witness ==
  /\ hist.closes = 2
  /\ hist.timerStarts = 2
  /\ conn.op = "start"
  /\ conn.caller = "timer"

(* the step is a start() called by a timer that fails *)
RestartFailed ==
  /\ conn'.op = "startFailed"
  /\ conn'.caller = "timer"

(* C15: when a start() called by a reconnect timer fails during credential *)
(* load or negotiation, the failure is thrown to no caller and a further   *)
(* reconnect attempt eventually follows.                                   *)
C15_FailedRestartIsRetried ==
  /\ [][ RestartFailed => hist'.thrown = hist.thrown ]_vars
  /\ \A n \in 0..MaxSockets :
       (conn.op = "startFailed" /\ conn.caller = "timer" /\ hist.timerStarts = n)
         ~> (hist.timerStarts > n)

(* C16: whenever start() is called again after a close, isConnected is     *)
(* false and qrCodeGenerated is false.                                     *)
C16_RestartFindsFieldsReset ==
  (conn.op = "start" /\ conn.caller = "timer")
    => (~conn.before.isConnected /\ ~conn.before.qrCodeGenerated)

(* the step is a qr payload *)
QrPayload ==
  /\ conn'.op = "connection.update"
  /\ conn'.update.qr

(* C17: a qr payload received while qrCodeGenerated is false renders the   *)
(* pairing prompt and sets the flag; a qr payload received while it is set *)
(* renders nothing; between two clearings of the flag (an open, a          *)
(* logged-out close) the prompt is rendered at most once.                  *)
C17_PromptOncePerClearing ==
  /\ [][ QrPayload =>
            /\ conn'.rendered = ~qrCodeGenerated
            /\ qrCodeGenerated' = TRUE ]_vars
  /\ [](hist.renders <= 1)

(* a further qr payload of a socket that showed its prompt was suppressed  *)
C17_Witness ==
  /\ conn.op = "connection.update"
  /\ conn.update.qr
  /\ conn.before.qrCodeGenerated
  /\ ~conn.rendered
  /\ hist.renders = 1
  /\ qrCodeGenerated

---------------------------------------------------------------------------
(* the digits of a string, in their order *)
RECURSIVE DigitsOnly(_)
DigitsOnly(str) ==
  IF str = << >> THEN << >>
  ELSE IF Head(str) \in {"0", "1", "2", "3", "4", "5", "6", "7", "8", "9"}
    THEN <<Head(str)>> \o DigitsOnly(Tail(str))
    ELSE DigitsOnly(Tail(str))

PairingCall == conn.op = "generatePairingCode"

(* C18: generatePairingCode rejects without calling requestPairingCode     *)
(* every phone number whose digits-only normalisation has fewer than 10 or *)
(* more than 15 digits; for 10 to 15 digits, when connected, it calls the  *)
(* transport once with the normalised number and returns its code.         *)
C18_PairingValidatesLength ==
  PairingCall =>
    LET clean == DigitsOnly(conn.arg)
    IN /\ (Len(clean) < 10 \/ Len(clean) > 15) =>
            (conn.result.outcome = "rejected" /\ conn.result.calls = << >>)
       /\ (Len(clean) >= 10 /\ Len(clean) <= 15 /\ conn.before.isConnected) =>
            /\ conn.result.calls = <<clean>>
            /\ conn.answer.outcome = "returned" =>
                  (conn.result.outcome = "returned" /\ conn.result.value = conn.answer.value)

(* a connected call with a number written with other characters got the    *)
(* code the transport gave for its 13 digits                               *)
C18_Witness ==
  /\ PairingCall
  /\ conn.before.isConnected
  /\ conn.arg # DigitsOnly(conn.arg)
  /\ Len(DigitsOnly(conn.arg)) = 13
  /\ conn.result.outcome = "returned"
  /\ conn.result.value = <<"ABCD-1234">>

(* a connected call with 16 digits was rejected before the transport       *)
C18_WitnessTooLong ==
  /\ PairingCall
  /\ conn.before.isConnected
  /\ Len(DigitsOnly(conn.arg)) = 16
  /\ conn.result.outcome = "rejected"
  /\ conn.result.calls = << >>

NeedsOpenConnection == conn.op \in {"generatePairingCode", "sendMessage"}

(* C19: generatePairingCode and sendMessage, called while the connection   *)
(* is not open, are rejected without a transport call, with one error when *)
(* the connection handle is not initialized and another when the handle    *)
(* exists but is not connected.                                            *)
C19_NotOpenErrorsToldApart ==
  (NeedsOpenConnection /\ ~(conn.before.sock # 0 /\ conn.before.isConnected)) =>
    /\ conn.result.outcome = "rejected"
    /\ conn.result.calls = << >>
    /\ conn.before.sock = 0 => conn.result.error.message = NotInitialized
    /\ conn.before.sock # 0 =>
         conn.result.error.message \in {NotConnectedYet, NotConnected}

(* C20: sendMessage calls the transport only while isConnected is true:    *)
(* with isConnected false it rejects and no send happens; when connected   *)
(* it sends once, to the identity unchanged if it contains "@" and to      *)
(* identity + "@s.whatsapp.net" otherwise.                                 *)
C20_SendOnlyWhileConnected ==
  conn.op = "sendMessage" =>
    IF conn.before.isConnected
      THEN LET hasAt == \E i \in DOMAIN conn.arg : conn.arg[i] = "@"
           IN /\ Len(conn.result.calls) = 1
              /\ conn.result.calls[1].text = AdminText
              /\ conn.result.calls[1].jid =
                   IF hasAt THEN conn.arg ELSE conn.arg \o <<"@", "s.whatsapp.net">>
      ELSE conn.result.outcome = "rejected" /\ conn.result.calls = << >>

(* a send to a bare number went out to the user jid                        *)
C20_Witness ==
  /\ conn.op = "sendMessage"
  /\ conn.before.isConnected
  /\ conn.arg = <<"2348100000001">>
  /\ conn.result.outcome = "returned"
  /\ sent = <<[jid |-> <<"2348100000001", "@", "s.whatsapp.net">>, text |-> AdminText]>>

(* a send after a close of an opened socket was rejected                   *)
C20_WitnessClosed ==
  /\ conn.op = "sendMessage"
  /\ ~conn.before.isConnected
  /\ conn.before.sock # 0
  /\ \E s \in DOMAIN sockets : sockets[s] = "closed"
  /\ conn.result.outcome = "rejected"

---------------------------------------------------------------------------
(* the sockets that were made, have their three observers registered and   *)
(* were not closed: nothing in start() ends a socket or removes observers  *)
Live == {s \in DOMAIN sockets : sockets[s] \in {"connecting", "open"}}

(* C21: after any sequence of start() calls, made while an earlier start   *)
(* or a reconnect is in flight or while a connection is open, at most one  *)
(* socket with registered observers is live.                               *)
C21_OneLiveSocket == Cardinality(Live) <= 1

---------------------------------------------------------------------------
(* the step is a start() that ends in its catch block *)
StartFailed == conn'.op = "startFailed"

(* C22: an error raised by the credential load, the version negotiation or *)
(* the socket creation comes out of start() as it was raised; that call    *)
(* makes no socket and registers no observers; the error raised in the     *)
(* start() of registerRoutes reaches registerRoutes.                       *)
C22_StartPropagates ==
  [][ StartFailed =>
        /\ conn'.result.outcome = "rejected"
        /\ conn'.result.error = conn'.answer.error
        /\ conn'.result.error \in StartErrors
        /\ sockets' = sockets
        /\ sock' = sock
        /\ conn'.caller # "timer" => hist'.thrown = hist.thrown + 1 ]_vars

(* the start() of registerRoutes failed at the credential load: no socket  *)
(* was made and the error reached registerRoutes                           *)
C22_Witness ==
  /\ conn.op = "startFailed"
  /\ conn.caller = "boot"
  /\ conn.result.error = Thrown(<<"useMultiFileAuthState: EACCES">>)
  /\ hist.thrown = 1
  /\ sockets = << >>
  /\ sock = 0

(* a restart failed at the socket creation: the handle is still the closed *)
(* socket's                                                                *)
C22_WitnessRestart ==
  /\ conn.op = "startFailed"
  /\ conn.caller = "timer"
  /\ conn.result.error = Thrown(<<"makeWASocket: invalid config">>)
  /\ sockets = <<"closed">>
  /\ sock = 1

---------------------------------------------------------------------------
ManagerFields == <<sock, isConnected, qrCodeGenerated, timers, starting, sockets>>

C23_WitnessNoHandle ==
  /\ conn.op = "stop"
  /\ conn.before.sock = 0
  /\ sock = 0
  /\ stopping = 0
  /\ starting["boot"] = 1

---------------------------------------------------------------------------
(* the request was answered by the pair-code route itself                  *)
PairingRefusedByRoute == conn.op = "POST /api/whatsapp/pair-code"

Malformed(phoneNumber) ==
  Len(DigitsOnly(phoneNumber)) < 10 \/ Len(DigitsOnly(phoneNumber)) > 15

ClientError(response) == response.status >= 400 /\ response.status <= 499

(* C27: a pairing-code request is answered with a 4xx status and an error  *)
(* text when the phone number is missing, and also when the bot is         *)
(* connected and the number normalises to fewer than 10 or more than 15    *)
(* digits.                                                                 *)
C27_BadNumberIsClientError ==
  /\ PairingRefusedByRoute =>
        (ClientError(conn.response) /\ conn.response.error # << >>)
  /\ (PairingCall /\ conn.before.sock # 0 /\ conn.before.isConnected
        /\ Malformed(conn.arg)) =>
        (ClientError(conn.response) /\ conn.response.error # << >>)

---------------------------------------------------------------------------
(* the step is a connection update with the given status *)
StatusIs(connection) ==
  /\ conn'.op = "connection.update"
  /\ conn'.update.connection = connection

(* C28: every 'open' update sets isConnected and clears qrCodeGenerated;   *)
(* every 'close' update clears isConnected, whatever its cause; nothing    *)
(* but an 'open' update sets isConnected, so from a close to the next open *)
(* getConnectionStatus reports connected = false and sendMessage rejects.  *)
C28_FlagsFollowOpenAndClose ==
  /\ [][ /\ StatusIs("open") => (isConnected' = TRUE /\ qrCodeGenerated' = FALSE)
         /\ StatusIs("close") => isConnected' = FALSE
         /\ (isConnected' /\ ~isConnected) => StatusIs("open") ]_vars
  /\ [](getConnectionStatus.connected = isConnected)
  /\ []((conn.op = "sendMessage" /\ ~conn.before.isConnected) =>
           (conn.result.outcome = "rejected" /\ conn.response.status = 500))

(* after the close of an opened socket, with the next socket not yet open, *)
(* the status is not connected and a manual send was rejected              *)
C28_Witness ==
  /\ conn.op = "sendMessage"
  /\ conn.result.outcome = "rejected"
  /\ ~getConnectionStatus.connected
  /\ hist.closes = 1
  /\ sockets = <<"closed", "connecting">>

(* the open of a reconnected socket set the flag again and cleared a       *)
(* debounce flag that was set                                              *)
C28_WitnessReopen ==
  /\ conn.op = "connection.update"
  /\ conn.update.connection = "open"
  /\ ~conn.before.isConnected
  /\ conn.before.qrCodeGenerated
  /\ isConnected
  /\ ~qrCodeGenerated
  /\ sockets = <<"closed", "open">>

---------------------------------------------------------------------------
(* the causes a close event can carry, logged-out apart: the named ones,   *)
(* one the handler does not name, and none                                 *)
ReconnectCauses == (DisconnectReason \cup {NoStatusCode}) \ {"loggedOut"}

(* the delay the claim gives each cause: short, long, medium               *)
DelayOfCause(statusCode) ==
  CASE statusCode = "restartRequired" -> RestartDelay
    [] statusCode \in {"timedOut", "connectionLost"} -> LostDelay
    [] OTHER -> DefaultDelay

(* C29: a close event with a cause other than logged-out sets exactly one  *)
(* reconnect timer; its delay is the short one for restart-required, the   *)
(* long one for timed-out and connection-lost and the medium one for any   *)
(* other or a missing cause, with short < medium < long, and it is the     *)
(* same at the first close and at every later one.                         *)
C29_DelayFixedByCause ==
  /\ [][ \A statusCode \in ReconnectCauses :
            ClosedWith(statusCode) =>
              /\ conn'.timeouts = <<DelayOfCause(statusCode)>>
              /\ timers' = [timers EXCEPT ![DelayOfCause(statusCode)] = @ + 1] ]_vars
  /\ [](RestartDelay < DefaultDelay /\ DefaultDelay < LostDelay)

(* the third close of a run, a timed-out one, set the long timer as the    *)
(* first would                                                             *)
C29_Witness ==
  /\ conn.op = "connection.update"
  /\ conn.update.connection = "close"
  /\ conn.update.statusCode = "timedOut"
  /\ hist.closes = 3
  /\ hist.timerStarts = 2
  /\ timers = [NoTimers EXCEPT ![LostDelay] = 1]

(* a close that carries no cause set the medium timer                      *)
C29_WitnessNoCause ==
  /\ conn.op = "connection.update"
  /\ conn.update.connection = "close"
  /\ conn.update.statusCode = NoStatusCode
  /\ timers = [NoTimers EXCEPT ![DefaultDelay] = 1]

---------------------------------------------------------------------------
(* the fields of a Lead the claim calls immutable; createdAt and updatedAt *)
(* are not modelled                                                        *)
ImmutableLeadFields ==
  {"id", "phoneNumber", "name", "projectType", "budget", "timeline", "description"}

(* C24: after a Lead is created no operation changes its id, phoneNumber,  *)
(* name, projectType, budget, timeline or description: a stored lead is    *)
(* kept under its key and these fields are the same after every step.      *)
C24_LeadFieldsImmutable ==
  [][ \A i \in DOMAIN leads :
        /\ i \in DOMAIN leads'
        /\ \A f \in ImmutableLeadFields : leads'[i][f] = leads[i][f] ]_vars

---------------------------------------------------------------------------
(* C25: the message log is append-only: in every step, of an inbound       *)
(* batch, a manual send or a PATCH request, each entry of the log is kept  *)
(* as it was, at its place, and entries are only added behind it.          *)
C25_LogAppendOnly ==
  [][ /\ Len(botMessages') >= Len(botMessages)
      /\ SubSeq(botMessages', 1, Len(botMessages)) = botMessages ]_vars

(* the log after the conversation, an inbound text with its reply, a       *)
(* manual send and a PATCH request that found its lead                     *)
C25_Witness ==
  /\ Len(botMessages) = 2 * Len(AdminPrefix) + 3
  /\ ManualSends(botMessages) = 1
  /\ hist.patches = 1
  /\ Len(leads) = 1
  /\ \A i \in 1..(2 * Len(AdminPrefix)) : botMessages[i] = After(AdminPrefix).botMessages[i]

---------------------------------------------------------------------------
(* the entries of the log and the sends that carry the given text or       *)
(* concern the given identity                                              *)
TraceOf(phoneNumber, text) ==
  {i \in DOMAIN botMessages :
     botMessages[i].phoneNumber = phoneNumber \/ botMessages[i].content = text}
    \cup {i \in DOMAIN sent : sent[i].jid = phoneNumber}

(* C30: handleMessages forwards at most one event of a batch, the first:   *)
(* a step adds at most one 'received' entry to the log and sends at most   *)
(* one reply; a batch that is empty or whose first event is the account's  *)
(* own changes nothing; an event that came behind another one leaves no    *)
(* log entry, no reply and no session.                                     *)
C30_OnlyFirstEventHandled ==
  /\ [][ /\ Received(botMessages') <= Received(botMessages) + 1
         /\ Len(sent') <= Len(sent) + 1
         /\ hist'.passedOver > hist.passedOver =>
               /\ last'.phoneNumber = Sender
               /\ last'.messageText \in AdminTexts ]_vars
  /\ [](TraceOf(Bystander, FollowerText) = {})
  /\ [](Bystander \notin DOMAIN userStates /\ last.messageText # FollowerText)

(* two batches of two events were delivered: the first events were handled *)
(* (the second one opened the form again) and the events behind them left  *)
(* nothing                                                                 *)
C30_Witness ==
  /\ hist.passedOver = 2
  /\ Received(botMessages) = Len(AdminPrefix) + 2
  /\ Len(leads) = 1
  /\ InForm(userStates[Sender])
  /\ DOMAIN userStates = {Sender}

---------------------------------------------------------------------------
(* the entries of the first j places of the log that have the given type   *)
(* and identity                                                            *)
EntriesUpTo(j, phoneNumber, messageType) ==
  {i \in 1..j : botMessages[i].phoneNumber = phoneNumber
                  /\ botMessages[i].messageType = messageType}

(* the entry the engine writes for a text it received or a reply it sent   *)
EngineEntry(phoneNumber, messageType, content, isBot) ==
  [phoneNumber |-> phoneNumber, messageType |-> messageType, content |-> content,
   isBot |-> isBot, id |-> Len(botMessages) + 1]

(* C26: a handleMessage call with a non-empty text appends one 'received'  *)
(* entry (isBot 0, the inbound text, the sender) before it reads the       *)
(* session; a reply that the transport accepted appends one 'sent' entry   *)
(* (isBot 1, the reply text, the sender); no other step of a handler       *)
(* writes to the log, and the 'sent' entries of a sender never outnumber   *)
(* the 'received' entries before them.                                     *)
C26_ReceivedThenSent ==
  /\ [][ Len(tasks') > Len(tasks) =>
           LET t == tasks'[Len(tasks')]
           IN /\ botMessages' =
                   Append(botMessages, EngineEntry(t.phoneNumber, "received", t.messageText, 0))
              /\ t.messageText # << >>
              /\ t.pc = "received"
              /\ UNCHANGED <<userStates, objects, stored, sent>> ]_vars
  /\ [][ sent' # sent =>
           /\ Len(sent') = Len(sent) + 1
           /\ LET reply == sent'[Len(sent')]
              IN botMessages' =
                   Append(botMessages, EngineEntry(reply.jid, "sent", reply.text, 1)) ]_vars
  /\ [][ (Len(tasks') <= Len(tasks) /\ sent' = sent) => botMessages' = botMessages ]_vars
  /\ [](\A j \in DOMAIN botMessages :
          botMessages[j].messageType = "sent" =>
            Cardinality(EntriesUpTo(j, botMessages[j].phoneNumber, "sent"))
              <= Cardinality(EntriesUpTo(j, botMessages[j].phoneNumber, "received")))

(* two handlers overlapped and both ended: the log ends with their two     *)
(* 'received' entries followed by their two 'sent' entries                 *)
C26_Witness ==
  /\ tasks = << >>
  /\ hist.handled = 2
  /\ Len(botMessages) >= 4
  /\ LET n == Len(botMessages)
     IN /\ botMessages[n - 3].messageType = "received" /\ botMessages[n - 3].isBot = 0
        /\ botMessages[n - 2].messageType = "received" /\ botMessages[n - 2].isBot = 0
        /\ botMessages[n - 1].messageType = "sent" /\ botMessages[n - 1].isBot = 1
        /\ botMessages[n].messageType = "sent" /\ botMessages[n].isBot = 1
        /\ botMessages[n].content = sent[Len(sent)].text

(* the draft field written at each step and the question that follows it   *)
FieldOfStep == <<"projectType", "budget", "timeline", "description", "name">>

PromptAfterStep == <<BudgetPrompt, TimelinePrompt, DescriptionPrompt, NamePrompt>>

(* C31: at a step k of 1..4 every text that is not an exit keyword stores  *)
(* a value in the field of step k, moves the session to step k+1 and is    *)
(* answered with the next question; at step 5 it stores the name in one    *)
(* new lead and ends the form.  A session in the form has had step-1       *)
(* answers, and a run that left the form without an exit keyword had five. *)
C31_NoInputBlocksForm ==
  /\ HandledInForm /\ ~IsExitKeyword(last.messageText) =>
       LET k == last.before.leadFormStep
           st == Session(last.phoneNumber)
       IN /\ k < 5 =>
               /\ InForm(st)
               /\ st.leadFormStep = k + 1
               /\ st.leadData[FieldOfStep[k]] # Undefined
               /\ last.reply = PromptAfterStep[k]
               /\ last.created = <<>>
          /\ k = 5 =>
               /\ st.currentMenu = "main"
               /\ st.leadFormStep = 0
               /\ Len(last.created) = 1
               /\ last.created[1].name # Undefined
               /\ leads # <<>> /\ leads[Len(leads)].name = last.created[1].name
  /\ \A id \in Ids :
       LET n == Len(run[id].inputs)
           st == Session(id)
       IN /\ InForm(st) => n < 5 /\ st.leadFormStep = n + 1
          /\ ~InForm(st) /\ n > 0 => n = 5

(* a text of white space only is the fifth answer of a run whose other     *)
(* answers were the same text                                              *)
C31_Witness ==
  /\ HandledInForm
  /\ last.before.leadFormStep = 5
  /\ last.messageText = <<" ">>
  /\ run[Sender].inputs = <<<<" ">>, <<" ">>, <<" ">>, <<" ">>, <<" ">>>>
  /\ Len(leads) = 1
  /\ Session(Sender) = DefaultState

(* the response of each entry of the switch, and of each marker group in   *)
(* the order quote, AI, web, blockchain, Vendra, portfolio, contact,       *)
(* products                                                                *)
ResponseOfEntry == ResponseOfCode \o <<getMainMenu>>

GroupOrder ==
  << "getQuoteInfo", "getAIInfo", "getWebDevInfo", "getBlockchainInfo", "getVendraInfo",
     "getPortfolioInfo", "getContactInfo", "getProductsInfo" >>

ResponseOfGroup ==
  << QuoteText, getAIInfo, getWebDevInfo, getBlockchainInfo, getVendraInfo,
     getPortfolioInfo, getContactInfo, getProductsInfo >>

(* the text holds a marker of group g and of no group before g             *)
FirstGroup(input, g) ==
  /\ GroupMatches(input, MarkerGroups[g])
  /\ \A h \in 1..(g - 1) : ~GroupMatches(input, MarkerGroups[h])

(* C32: in state main a text whose trimmed, lower-cased form is a label of *)
(* the switch or a navigation keyword gets the response of that entry,     *)
(* whatever markers it holds; any other text gets the response of the      *)
(* first marker group, in the order of GroupOrder, of which it holds a     *)
(* marker.                                                                 *)
C32_TiersInOrder ==
  /\ [g \in DOMAIN MarkerGroups |-> MarkerGroups[g].route] = GroupOrder
  /\ HandledInMain =>
       LET input == Canonical(last.messageText)
       IN /\ \A i \in DOMAIN MenuCases :
               input \in MenuCases[i].labels => last.reply = ResponseOfEntry[i]
          /\ input \notin AllLabels =>
               \A g \in DOMAIN MarkerGroups :
                 FirstGroup(input, g) => last.reply = ResponseOfGroup[g]

(* 'projects' holds the quote marker 'project' and gets the portfolio      *)
C32_Witness ==
  /\ HandledInMain
  /\ last.messageText = <<"p","r","o","j","e","c","t","s">>
  /\ GroupMatches(Canonical(last.messageText), MarkerGroups[1])
  /\ last.reply = getPortfolioInfo

(* a text with markers of the web, portfolio and products groups gets the  *)
(* web response                                                            *)
C32_WitnessGroups ==
  /\ HandledInMain
  /\ last.messageText = <<"a","p","p"," ","f","o","r"," ","a"," ","w","e","b"," ","c","a","s","e">>
  /\ GroupMatches(Canonical(last.messageText), MarkerGroups[6])
  /\ GroupMatches(Canonical(last.messageText), MarkerGroups[8])
  /\ last.reply = getWebDevInfo

---------------------------------------------------------------------------
(* a request to POST /api/whatsapp/send-message was answered in this step  *)
ManualSendStep ==
  /\ conn'.op \in {"sendMessage", "POST /api/whatsapp/send-message"}
  /\ conn' # conn \/ ManualSends(botMessages') > ManualSends(botMessages)

(* C34: a request to the send-message route changes no session, creates no *)
(* lead and records no engine call; when the transport accepted the send   *)
(* the log grows by one 'sent' entry with isBot 0 for the target and the   *)
(* text of the request, and when the send was refused or rejected, or the  *)
(* request was incomplete, the log is left as it was.                      *)
C34_ManualSendLeavesSessions ==
  [][ ManualSendStep =>
        /\ userStates' = userStates
        /\ leads' = leads
        /\ last' = last /\ run' = run
        /\ IF conn'.op = "sendMessage" /\ conn'.result.outcome = "returned"
             THEN /\ conn'.answer.outcome = "returned"
                  /\ Len(conn'.result.calls) = 1
                  /\ sent' = Append(sent, conn'.result.calls[1])
                  /\ botMessages' =
                       Append(botMessages,
                              [phoneNumber |-> conn'.arg, messageType |-> "sent",
                               content |-> conn'.result.calls[1].text, isBot |-> 0,
                               id |-> Len(botMessages) + 1])
             ELSE /\ botMessages' = botMessages
                  /\ sent' = sent ]_vars

(* a send to the identity that is at the last question of the form         *)
C34_Witness ==
  /\ conn.op = "sendMessage" /\ conn.arg = Sender
  /\ conn.result.outcome = "returned"
  /\ botMessages[Len(botMessages)].isBot = 0
  /\ botMessages[Len(botMessages)].messageType = "sent"
  /\ botMessages[Len(botMessages)].phoneNumber = Sender
  /\ InForm(Session(Sender)) /\ Session(Sender).leadFormStep = 5
  /\ Session(Sender).leadData.description # Undefined

(* a send the transport rejected                                           *)
C34_WitnessRejected ==
  /\ conn.op = "sendMessage" /\ conn.arg = Sender
  /\ conn.result.outcome = "rejected" /\ conn.result.calls # <<>>
  /\ ManualSends(botMessages) = 0
  /\ InForm(Session(Sender))

---------------------------------------------------------------------------
(* C35: every session of the Map has currentMenu 'lead_form' exactly when  *)
(* its step is one of 1..5, and a session in main is at step 0 with an     *)
(* empty draft; so handleLeadForm is never called at a step outside 1..5.  *)
C35_MenuAndStepAgree ==
  /\ \A id \in DOMAIN userStates :
       LET st == userStates[id]
       IN /\ st.currentMenu \in {"main", "lead_form"}
          /\ InForm(st) <=> st.leadFormStep \in 1..5
          /\ st.currentMenu = "main" => st.leadFormStep = 0 /\ st.leadData = EmptyLeadData
  /\ Handled /\ InForm(last.before) => last.before.leadFormStep \in 1..5

(* a form that was left by an exit keyword and entered again               *)
C35_Witness ==
  /\ InForm(Session(Sender)) /\ Session(Sender).leadFormStep = 2
  /\ \E i \in DOMAIN botMessages :
       botMessages[i].messageType = "received" /\ IsExitKeyword(botMessages[i].content)
  /\ Cardinality({i \in DOMAIN sent : sent[i].text = QuoteText}) = 2

(* a form that was filled to its end                                       *)
C35_WitnessCompleted ==
  /\ Len(leads) = 1
  /\ Session(Sender) = DefaultState
  /\ Sender \in DOMAIN userStates

---------------------------------------------------------------------------
---------------------------------------------------------------------------
(* the entries a step added to a sequence                                  *)
Added(before, after) == SubSeq(after, Len(before) + 1, Len(after))

(* C37: handling a text of one identity leaves every other identity's      *)
(* session as it was, known or unknown to the Map, and the log entries,    *)
(* the lead and the reply of the step carry the sender's identity.         *)
C37_SessionsIsolated ==
  [][ botMessages' # botMessages =>
        LET a == last'.phoneNumber
        IN /\ \A b \in PairIds \ {a} :
                /\ b \in DOMAIN userStates' <=> b \in DOMAIN userStates
                /\ b \in DOMAIN userStates => userStates'[b] = userStates[b]
           /\ a \in DOMAIN userStates'
           /\ \A e \in {Added(botMessages, botMessages')[i] :
                          i \in 1..(Len(botMessages') - Len(botMessages))} :
                e.phoneNumber = a
           /\ \A l \in {Added(leads, leads')[i] : i \in 1..(Len(leads') - Len(leads))} :
                l.phoneNumber = a
           /\ \A s \in {Added(sent, sent')[i] : i \in 1..(Len(sent') - Len(sent))} :
                s.jid = a ]_vars

(* the second identity enters the form, the first completes it, the second *)
(* answers its first question                                              *)
C37_Witness ==
  LET received == SelectSeq(botMessages, LAMBDA e : e.messageType = "received")
      n == Len(AdminPrefix)
  IN /\ Len(received) = n + 3
     /\ received[n + 1].phoneNumber = Bystander
     /\ received[n + 2].phoneNumber = Sender
     /\ received[n + 3].phoneNumber = Bystander
     /\ Len(leads) = 1 /\ leads[1].phoneNumber = Sender
     /\ Session(Sender) = DefaultState
     /\ InForm(Session(Bystander)) /\ Session(Bystander).leadFormStep = 2
     /\ Session(Bystander).leadData.projectType = StringValue(<<"A","d","a">>)

---------------------------------------------------------------------------
(* the texts of the 'received' entries of the log, in the order of the     *)
(* calls                                                                   *)
ReceivedTexts(log) ==
  LET received == SelectSeq(log, LAMBDA e : e.messageType = "received")
  IN [i \in 1..Len(received) |-> received[i].content]

StartsWith(s, p) == Len(p) <= Len(s) /\ SubSeq(s, 1, Len(p)) = p

(* the conversation the run started from                                   *)
PrefixOf(texts) ==
  CHOOSE p \in AsyncPrefixes :
    /\ StartsWith(texts, p)
    /\ \A q \in AsyncPrefixes : StartsWith(texts, q) => Len(q) <= Len(p)

Orders(n) == {f \in [1..n -> 1..n] : \A i, j \in 1..n : f[i] = f[j] => i = j}

(* what the texts delivered so far leave when they are handled one after   *)
(* the other, in each order                                                *)
SerialOutcomes ==
  LET texts == ReceivedTexts(botMessages)
      p == PrefixOf(texts)
      d == SubSeq(texts, Len(p) + 1, Len(texts))
  IN {After(p \o [i \in 1..Len(d) |-> d[f[i]]]) : f \in Orders(Len(d))}

(* C38: when no handler is in flight, the sessions and the leads are those *)
(* that handling the delivered texts one after the other, in some order,   *)
(* leaves.                                                                 *)
C38_OverlapIsSerial ==
  tasks = << >> =>
    \E o \in SerialOutcomes : userStates = o.userStates /\ leads = o.leads

---------------------------------------------------------------------------
(* the handler i calls sock.sendMessage in this step                       *)
StartsSending(i) ==
  /\ Len(tasks') = Len(tasks)
  /\ tasks[i].pc # "sending" /\ tasks'[i].pc = "sending"

(* the reply of the handler i is rejected in this step                     *)
ReplyRejected(i) ==
  /\ tasks[i].pc = "sending"
  /\ tasks' = Remove(tasks, i)
  /\ hist'.caught = hist.caught + 1

Logged(log, phoneNumber, messageType, content) ==
  \E j \in DOMAIN log :
    /\ log[j].phoneNumber = phoneNumber
    /\ log[j].messageType = messageType
    /\ log[j].content = content

(* C39: when a handler calls the transport with its reply, the 'received'  *)
(* entry of its text is in the log, the session it worked on is the one    *)
(* the Map holds for the sender, and the lead of a completed form is       *)
(* saved; when the send is rejected, the Map, the sessions, the leads and  *)
(* the log are left as they are, and no 'sent' entry is written.           *)
C39_StepCommittedBeforeReply ==
  [][ /\ \A i \in DOMAIN tasks :
           StartsSending(i) =>
             LET t == tasks'[i]
             IN /\ Logged(botMessages', t.phoneNumber, "received", t.messageText)
                /\ t.phoneNumber \in DOMAIN stored'
                /\ stored'[t.phoneNumber] = t.userState
                /\ userStates'[t.phoneNumber] = objects'[t.userState]
                /\ t.responseMessage = SummaryText(EmptyLeadData) =>
                     \E l \in DOMAIN leads' :
                       /\ leads'[l].phoneNumber = t.phoneNumber
                       /\ leads'[l].name = StringValue(trim(t.messageText))
      /\ hist'.caught = hist.caught + 1 =>
           /\ \E i \in DOMAIN tasks : ReplyRejected(i)
           /\ UNCHANGED <<userStates, objects, stored, leads, botMessages, sent>>
           /\ \A i \in DOMAIN tasks :
                ReplyRejected(i) =>
                  Logged(botMessages', tasks[i].phoneNumber, "received",
                         tasks[i].messageText) ]_vars

(* the reply to the name given at step 5 was rejected: the lead is saved,  *)
(* the session is reset, and the log ends with the 'received' entry        *)
C39_Witness ==
  /\ hist.caught = 1
  /\ tasks = << >>
  /\ Len(leads) = 1 /\ leads[1].name = StringValue(<<"A","d","a">>)
  /\ Session(Sender) = DefaultState
  /\ hist.logAtFailure = Len(botMessages)
  /\ botMessages[Len(botMessages)].messageType = "received"
  /\ botMessages[Len(botMessages)].content = <<"A","d","a">>
  /\ ~Logged(botMessages, Sender, "sent", SummaryText(EmptyLeadData))

---------------------------------------------------------------------------
(* C40: once stop() has returned, no reconnect timer calls start(), and    *)
(* the close event that follows the logout sets no timer.                  *)
C40_NoStartAfterStop ==
  [][ hist.stopDone =>
        /\ hist'.timerStarts = hist.timerStarts
        /\ ClosedWith("loggedOut") => timers' = timers ]_vars

====
